---- MODULE Spec2Model ----
(***************************************************************************)
(* Model of the CNPJ consultation coordinator CNPJConsultorV2              *)
(* (src/legacy/cnpj_consultor_v2.py): identifier normalisation, the file   *)
(* cache with its 24h freshness rule, the retry loop of consultar, and the *)
(* browser-session lifecycle of _perform_consultation.                     *)
(* Two further specifications model its collaborators on their own: the    *)
(* captcha client SolveCaptchaClient (ClientSpec) and the text extractors   *)
(* CNPJDataExtractor.extract_from_text and the legacy _processar_dados of   *)
(* src/legacy/main.py (ExtractorSpec).                                      *)
(*                                                                         *)
(* Strings are sequences of one-character strings.  The string "U+0663"    *)
(* stands for the single character ARABIC-INDIC DIGIT THREE, a decimal     *)
(* digit for Python's str pattern \d / \D, but not an ASCII digit.         *)
(* Time is in whole seconds (time.time() truncated); a timestamp string    *)
(* "%Y-%m-%d %H:%M:%S" is represented by the second it denotes.            *)
(***************************************************************************)
EXTENDS Integers, Sequences, FiniteSets, TLC

VARIABLES
    \* ---- fields of the CNPJConsultorV2 object
    playwright,     \* self.playwright: "None" or "driver"
    browser,        \* self.browser:    "None" or "browser"
    page,           \* self.page:       "None" or "page"
    \* ---- the world outside the object
    driverRunning,  \* a Playwright driver process started by this object is running
    browserOpen,    \* a Chromium process launched by this object is open
    pageLive,       \* self.page belongs to the browser that is open now
    pageUrl,        \* the document shown by the live page, with the id of the query
    cache,          \* cache_dir/<id>.json for every id: absent, corrupt, a record, or
                    \* out of reach
    debug,          \* debug artifacts written by the current attempt: <<error_type, ext>>
    now,            \* the clock, in seconds
    \* ---- the consultar call in progress
    pc,             \* position of the call
    cnpj,           \* argument cnpj
    use_cache,      \* argument use_cache
    cnpj_clean,     \* local cnpj_clean
    attempt,        \* loop variable of "for attempt in range(max_retries)"
    result,         \* value _perform_consultation is about to return
    exc,            \* exception in flight out of _perform_consultation
    ret,            \* what consultar returned or raised
    \* ---- history of the current call, for stating the properties
    cached,         \* what _get_cache returned in this call, NotCalled before it ran
    saved,          \* how _save_cache ended in this call, "not_called" before it ran
    cache0,         \* the cache when the call began
    callTime,       \* the clock when the call began
    stats,          \* attempts begun, attempts failed and backoff sleeps of this call
    calls,          \* number of consultar calls made so far
    first_cnpj,     \* argument cnpj of the first of two calls made in a row
    acquired,       \* where two calls are made in a row: async_playwright().start()
                    \* calls of the current consultar call
    \* ---- a solve_hcaptcha call of SolveCaptchaClient
    client_pc,      \* position of the call
    client_attempt, \* loop variable of "for attempt in range(max_retries)"
    captcha_id,     \* local captcha_id: "None" or the id the service gave
    token,          \* what _wait_solution returned: "None" or result['request']
    start_time,     \* local start_time of _wait_solution
    clock,          \* time.time(), in seconds since the call began
    response,       \* the answer to the last request
    client_ret,     \* what solve_hcaptcha returned, NotCalled before it returned
    \* ---- history of the solve_hcaptcha call, for stating the properties
    submits,        \* POST /in.php requests made so far
    polls,          \* GET /res.php requests made by the current _wait_solution
    pollAt,         \* time.time() - start_time when the last poll began
    sleptSincePoll, \* an asyncio.sleep has ended since the last poll
    sleptSinceFail, \* an asyncio.sleep has ended since the last attempt failed
    waitExit,       \* how the last _wait_solution ended
    ticket,         \* the id the service gave in answer to the last submit, or "None"
    poll_id,        \* the id parameter of the last poll since that submit, or "None"
    \* ---- calls of CNPJDataExtractor.extract_from_text
    ex_pc,          \* position: which of the two calls comes next
    ex_text,        \* argument text: a sequence of raw lines
    ex_time,        \* the wall clock read by time.strftime, in seconds
    ex_first,       \* the record returned by the first call
    ex_second,      \* the record returned by the second call on the same text
    ex_legacy,      \* what the legacy CNPJConsultor._processar_dados made of the text
    \* ---- the Selenium client, CNPJConsulta of src/cnpj_consulta.py
    driver,         \* self.driver
    sel_pc,         \* position of the consultar_cnpj call in progress
    sel_cnpj,       \* argument cnpj
    sel_ret,        \* how the last consultar_cnpj call ended
    sel_calls,      \* consultar_cnpj calls made on the object
    sel_log,        \* the last message consultar_cnpj or setup_driver logged
    \* ---- two consultar calls in progress on one CNPJConsultorV2 object; they share
    \* ---- self.playwright, self.browser and self.page above
    task,           \* per call: the await it is suspended in, how its attempt ended,
                    \* and whose page the pending operation or its element is of
    sessions,       \* per call: the state of the driver and the browser it started
    touched,        \* <<call, operation, owner>>: what each call did to whose session
    \* ---- the legacy client, SolveCaptchaAPI of src/legacy/main.py
    legacy_pc,      \* position of the solve_hcaptcha call
    legacy_id,      \* captcha_id
    legacy_attempt, \* attempt of the for loop of _wait_for_result
    legacy_response,\* the last response received
    legacy_polls,   \* GET /res.php requests made
    legacy_slept,   \* seconds slept by time.sleep
    legacy_error_at,\* the number of the poll that was first answered by an error, or 0
    legacy_ret      \* what solve_hcaptcha returned

coordinatorVars ==
    <<playwright, browser, page, driverRunning, browserOpen, pageLive, pageUrl,
      cache, debug, now, pc, cnpj, use_cache, cnpj_clean, attempt, result, exc,
      ret, cached, saved, cache0, callTime, stats, calls, first_cnpj,
      acquired>>

clientVars ==
    <<client_pc, client_attempt, captcha_id, token, start_time, clock, response,
      client_ret, submits, polls, pollAt, sleptSincePoll, sleptSinceFail, waitExit,
      ticket, poll_id>>

extractorVars == <<ex_pc, ex_text, ex_time, ex_first, ex_second, ex_legacy>>

seleniumVars == <<driver, sel_pc, sel_cnpj, sel_ret, sel_calls, sel_log>>

concurrentVars == <<task, sessions, touched>>

legacyVars ==
    <<legacy_pc, legacy_id, legacy_attempt, legacy_response, legacy_polls, legacy_slept,
      legacy_error_at, legacy_ret>>

vars ==
    <<coordinatorVars, clientVars, extractorVars, seleniumVars, concurrentVars, legacyVars>>

OtherComponents == <<clientVars, extractorVars, seleniumVars, concurrentVars, legacyVars>>

\* what the steps of one component leave alone; for consultar, the other components
\* and the count of acquisitions, which is set where a call or an attempt begins
NotCoordinator == <<OtherComponents, acquired>>

\* the same, but for the seconds the solve_hcaptcha call of line 345 has taken
NotCoordinatorNorClock ==
    <<client_pc, client_attempt, captcha_id, token, start_time, response, client_ret,
      submits, polls, pollAt, sleptSincePoll, sleptSinceFail, waitExit, ticket, poll_id,
      extractorVars, seleniumVars, concurrentVars, legacyVars, acquired>>
NotClient      == <<coordinatorVars, extractorVars, seleniumVars, concurrentVars, legacyVars>>
NotExtractor   == <<coordinatorVars, clientVars, seleniumVars, concurrentVars, legacyVars>>
NotSelenium    == <<coordinatorVars, clientVars, extractorVars, concurrentVars, legacyVars>>
NotLegacy      == <<coordinatorVars, clientVars, extractorVars, seleniumVars, concurrentVars>>

objVars  == <<playwright, browser, page>>
envVars  == <<driverRunning, browserOpen, pageLive>>
callArgs == <<cnpj, use_cache, cnpj_clean, first_cnpj>>
histVars == <<saved, cache0, callTime, calls>>

\* what the steps of two interleaved calls leave alone: everything but the three
\* fields of the object and their own positions
NotConcurrent ==
    <<envVars, pageUrl, cache, debug, now, pc, callArgs, attempt, result, exc, ret,
      cached, stats, histVars, acquired, clientVars, extractorVars, seleniumVars,
      legacyVars>>

-----------------------------------------------------------------------------
(* Bounds and program constants *)

\* Number of consultar calls made on the object in one behaviour
MaxCalls == 1

MaxRetries == 3

BackoffSeconds == 10

CacheTTL == 86400

\* SolveCaptchaClient, lines 32-114:

\* self.timeout, the constructor's parameter timeout (line 35), in seconds
timeout == 6

\* max_retries of solve_hcaptcha, line 44
max_retries == 3

\* await asyncio.sleep(3) after a not-ready answer, line 108
PollSleep == 3

\* await asyncio.sleep(5) after a request that raised, line 112
ErrorSleep == 5

\* Seconds one solve_hcaptcha call of consultar is followed for, sleep by sleep,
\* where the requests of SolveCaptchaClient are not modelled one by one
MaxSolveSeconds == 6

\* The same where two calls are made in a row
TwoCallsSolveSeconds == 3

-----------------------------------------------------------------------------
(* Characters and input strings *)

AsciiDigits == {"0", "1", "2", "3", "4", "5", "6", "7", "8", "9"}

\* Characters of Unicode category Nd that occur in the inputs
UnicodeDigits == AsciiDigits \cup {"U+0663"}

Formatted == <<"3","8",".","1","3","9",".","4","0","7","/","0","0","0","1","-","7","7">>

Plain == <<"3","8","1","3","9","4","0","7","0","0","0","1","7","7">>

Thirteen == <<"3","8",".","1","3","9",".","4","0","7","/","0","0","0","1","-","7">>

Fifteen == Plain \o <<"7">>

Letters == <<"c","n","p","j">>

ArabicIndic == [i \in 1..14 |-> "U+0663"]

Inputs == {Formatted, Plain, Thirteen, Fifteen, Letters, <<>>, ArabicIndic}

\* What a call that follows another on the same object is given: an id in the
\* punctuated spelling or a string that is rejected, one second before or exactly
\* when the entries written at the end of the call before it expire
LaterInputs == {Formatted, Letters}

LaterElapsed == {CacheTTL - 1, CacheTTL}

\* When the files found in the cache directory at construction were stamped; the
\* clock reads 0 at construction
OldStamps == {0, 1 - CacheTTL, 0 - CacheTTL}

\* What the result page may show: the certificate, a page without any of its fields,
\* or a page carrying an error banner.  Lines 303-304 read the body text whatever it
\* is, and no line of the coordinator looks for a banner.
PageTexts == {"comprovante", "sem_campos", "erro_banner"}

-----------------------------------------------------------------------------
(* Values *)

None == [kind |-> "None"]

Absent == [kind |-> "absent"]

Corrupt == [kind |-> "corrupt"]

\* An entry of a cache directory that can no longer be searched (its permissions were
\* taken away after the log file of line 242 was opened): stat() on cache_dir/<id>.json
\* fails with EACCES, and no file can be created in the directory
Denied == [kind |-> "denied"]

NotCalled == [kind |-> "not_called"]

Exception(msg) == [kind |-> "exception", msg |-> msg]

Raised(type) == [kind |-> "raised", type |-> type]

Returned(value) == [kind |-> "returned", value |-> value]

\* No request has been answered yet
NoResponse == [raises |-> FALSE, status |-> 0, request |-> "<none>"]

-----------------------------------------------------------------------------
(* _clean_cnpj: normalisation and validation of the identifier *)

RECURSIVE SelectChars(_, _)
SelectChars(s, keep) ==
    IF s = <<>> THEN <<>>
    ELSE IF Head(s) \in keep THEN <<Head(s)>> \o SelectChars(Tail(s), keep)
    ELSE SelectChars(Tail(s), keep)

\* re.sub(r'\D', '', cnpj) on a str: removes every character that is not a
\* Unicode decimal digit (the pattern is compiled without re.ASCII)
re_sub_D(s) == SelectChars(s, UnicodeDigits)

ValidLengthAtLeast(clean) == Len(clean) >= 14

\* the test "len(clean) != 14" negated
ValidLength(clean) == Len(clean) = 14

_clean_cnpj_validates_only(s) ==
    IF ~ValidLength(re_sub_D(s)) THEN Raised("ValueError") ELSE Returned(s)

_clean_cnpj(s) ==
    LET clean == re_sub_D(s)
    IN  IF ~ValidLength(clean) THEN Raised("ValueError") ELSE Returned(clean)

\* The cache files an accepted input can name
CacheKeys == {_clean_cnpj(s).value : s \in {x \in Inputs : _clean_cnpj(x).kind = "returned"}}

-----------------------------------------------------------------------------
(* Records *)

\* asdict(data) of _perform_consultation: the extractor's record (metadados.sucesso
\* True, metadados.timestamp the clock at extraction), plus metadados.url_consulta;
\* texto stands for the fields extracted from the page text
RecordSuccessIfFields(t, url, text) ==
    [kind |-> "record", sucesso |-> (text # "sem_campos"), timestamp |-> t,
     url_consulta |-> url, texto |-> text]

Record(t, url, text) ==
    [kind |-> "record", sucesso |-> TRUE, timestamp |-> t, url_consulta |-> url,
     texto |-> text]

_error_response(error, t) ==
    [kind |-> "erro", erro |-> error, sucesso |-> FALSE, timestamp |-> t]

\* result.get("metadados", {}).get("sucesso")
Sucesso(r) == r.kind \in {"record", "erro"} /\ r.sucesso

-----------------------------------------------------------------------------
(* The file cache *)

IsFreshInclusive(t, cache_time) == t - cache_time <= CacheTTL

\* time.time() - cache_time < 86400
IsFresh(t, cache_time) == t - cache_time < CacheTTL

\* _get_cache, lines 390-404.  Line 393, cache_file.exists(), is outside the try:
\* Path.exists() answers False when stat() fails with ENOENT or ENOTDIR and raises any
\* other OSError, here the PermissionError of a directory that cannot be searched.
\* Inside the try: None when reading, json.loads, the timestamp lookup or strptime
\* raises (bare except, lines 403-404); the data when it is fresh; None otherwise.
_get_cache(c, key, t) ==
    IF c[key].kind = "denied" THEN Raised("PermissionError")
    ELSE IF c[key].kind = "absent" THEN None
    ELSE IF c[key].kind = "corrupt" THEN None
    ELSE IF IsFresh(t, c[key].timestamp) THEN c[key]
    ELSE None

SaveOutcomes == {"ok", "raises_untouched", "raises_truncated"}

\* _save_cache: write_text(json.dumps(data)); an exception is logged and swallowed.
\* A failed write leaves the file as it was (it could not be opened) or truncated
\* (it was opened for writing and the write failed).
_save_cache(c, key, data, outcome) ==
    IF c[key].kind = "denied" THEN c ELSE
    CASE outcome = "ok"               -> [c EXCEPT ![key] = data]
      [] outcome = "raises_untouched" -> c
      [] outcome = "raises_truncated" -> [c EXCEPT ![key] = Corrupt]

ShouldSaveIgnoringFlag(r, uc) == Sucesso(r)

ShouldSaveFlagInverted(r, uc) == Sucesso(r) /\ ~uc

\* if result.get("metadados", {}).get("sucesso") and use_cache
ShouldSave(r, uc) == Sucesso(r) /\ uc

RetryAgainNever(a) == FALSE

\* if attempt < max_retries - 1
RetryAgain(a) == a < MaxRetries - 1

-----------------------------------------------------------------------------
(* Per-call counters *)

\* attempts begun, attempts failed, backoff sleeps, and the steps of the current
\* attempt that returned without raising, in the order they ran
ZeroStats == [attempts |-> 0, failed |-> 0, sleeps |-> 0, stages |-> <<>>]

\* the step named st of the current attempt returned normally
Passed(st) == [stats EXCEPT !.stages = Append(@, st)]

-----------------------------------------------------------------------------
(* Initial state: the object as __init__ leaves it; the cache directory may *)
(* hold files of earlier runs                                               *)

Blank == [doc |-> "about:blank", cnpj |-> <<>>]

\* f"...Cnpjreva_Solicitacao.asp?cnpj={cnpj}"
SolicitacaoUrl(id) == [doc |-> "Cnpjreva_Solicitacao.asp", cnpj |-> id]

\* the result page
ResultUrl(id) == [doc |-> "Cnpjreva_Comprovante.asp", cnpj |-> id]

\* No solve_hcaptcha call is in progress
ClientParked ==
    /\ client_pc = "parked" /\ client_attempt = 0 /\ captcha_id = "None"
    /\ token = "None" /\ start_time = 0 /\ clock = 0 /\ response = NoResponse
    /\ client_ret = NotCalled /\ submits = 0 /\ polls = 0 /\ pollAt = 0
    /\ sleptSincePoll = FALSE /\ sleptSinceFail = FALSE /\ waitExit = "none"
    /\ ticket = "None" /\ poll_id = "None"

\* CNPJConsulta.__init__, lines 19-28 of src/cnpj_consulta.py: no driver, no call made
SeleniumParked ==
    /\ driver = "None" /\ sel_pc = "idle" /\ sel_cnpj = <<>>
    /\ sel_ret = NotCalled /\ sel_calls = 0 /\ sel_log = "none"

\* No call of the legacy client is in progress
LegacyParked ==
    /\ legacy_pc = "parked" /\ legacy_id = "None" /\ legacy_attempt = 0
    /\ legacy_response = NoResponse /\ legacy_polls = 0 /\ legacy_slept = 0
    /\ legacy_error_at = 0 /\ legacy_ret = NotCalled

Tasks == {"t1", "t2"}

\* No interleaved calls are in progress
ConcurrentParked ==
    /\ task = [t \in Tasks |-> [pc |-> "idle", outcome |-> "none", on |-> "None"]]
    /\ sessions = [t \in Tasks |-> [driver |-> "none", browser |-> "none"]]
    /\ touched = {}

\* No extract_from_text call is in progress
ExtractorParked ==
    /\ ex_pc = "parked" /\ ex_text = <<>> /\ ex_time = 0
    /\ ex_first = NotCalled /\ ex_second = NotCalled /\ ex_legacy = NotCalled

\* the cache directory cannot be searched
CacheDirDenied == \A k \in CacheKeys : cache[k] = Denied

OldEntries ==
    {Absent, Corrupt} \cup
    {Record(t, ResultUrl(k), "comprovante") : t \in OldStamps, k \in CacheKeys}

Init ==
    /\ playwright = "None" /\ browser = "None" /\ page = "None"
    /\ driverRunning = FALSE /\ browserOpen = FALSE /\ pageLive = FALSE
    /\ pageUrl = Blank
    /\ cache \in [CacheKeys -> OldEntries] \cup {[k \in CacheKeys |-> Denied]}
    /\ \A k \in CacheKeys : cache[k].kind = "record" => cache[k].url_consulta.cnpj = k
    /\ \A k \in CacheKeys : k # Plain =>
          cache[k] \in {Absent, Denied, Record(0, ResultUrl(k), "comprovante")}
    /\ debug = {}
    /\ now = 0
    /\ pc = "idle"
    /\ cnpj = <<>> /\ use_cache = TRUE /\ cnpj_clean = <<>>
    /\ attempt = 0
    /\ result = None /\ exc = None /\ ret = None
    /\ cached = NotCalled
    /\ saved = "not_called"
    /\ cache0 = cache
    /\ callTime = 0
    /\ stats = ZeroStats
    /\ calls = 0
    /\ first_cnpj = <<>>
    /\ acquired = 0
    /\ ClientParked /\ ExtractorParked /\ SeleniumParked /\ ConcurrentParked /\ LegacyParked

-----------------------------------------------------------------------------
(* consultar, lines 247-286 *)

\* The call begins: cnpj_clean = self._clean_cnpj(cnpj); a ValueError leaves the call
Consultar(s, uc, d) ==
    /\ UNCHANGED OtherComponents
    /\ pc \in {"idle", "done"}
    /\ calls' = calls + 1
    /\ now' = now + d
    /\ callTime' = now + d
    /\ cache0' = cache
    /\ cnpj' = s
    /\ use_cache' = uc
    /\ attempt' = 0
    /\ result' = None /\ exc' = None /\ cached' = NotCalled
    /\ saved' = "not_called"
    /\ stats' = ZeroStats
    /\ debug' = {}
    /\ LET c == _clean_cnpj(s)
       IN  IF c.kind = "raised"
           THEN /\ cnpj_clean' = <<>>
                /\ ret' = c
                /\ pc' = "done"
           ELSE /\ cnpj_clean' = c.value
                /\ ret' = None
                /\ pc' = IF uc THEN "check_cache" ELSE "setup"
    /\ UNCHANGED <<objVars, envVars, pageUrl, cache>>

CheckCacheFallsThrough ==
    /\ UNCHANGED NotCoordinator
    /\ pc = "check_cache"
    /\ cached' = _get_cache(cache, cnpj_clean, now)
    /\ pc' = "setup"
    /\ UNCHANGED <<objVars, envVars, pageUrl, cache, debug, now, callArgs, attempt,
                   result, exc, ret, stats, histVars>>

\* lines 261-265: if use_cache: cached = self._get_cache(cnpj_clean); if cached:
\* return cached.  The lookup is outside the try block of the retry loop: an
\* exception out of _get_cache would leave consultar.
CheckCache ==
    /\ UNCHANGED NotCoordinator
    /\ pc = "check_cache"
    /\ LET got == _get_cache(cache, cnpj_clean, now)
       IN  /\ cached' = got
           /\ IF got.kind = "raised"
              THEN ret' = got /\ pc' = "done"
              ELSE IF got # None
              THEN ret' = Returned(got) /\ pc' = "done"
              ELSE ret' = ret /\ pc' = "setup"
    /\ UNCHANGED <<objVars, envVars, pageUrl, cache, debug, now, callArgs, attempt,
                   result, exc, stats, histVars>>

-----------------------------------------------------------------------------
(* _perform_consultation, lines 288-311: one attempt *)

\* An exception leaves the try block: control goes to the finally clause
Fail(msg) ==
    /\ exc' = Exception(msg)
    /\ result' = None
    /\ pc' = "cleanup"

\* how an awaited call on the browser, the page or the driver ends
AwaitOutcomes == {"ok", "raises"}

\* _setup_browser, lines 315-316.  Everything is skipped when self.playwright is set;
\* otherwise async_playwright().start() is awaited and its result assigned.
SetupBrowser(o) ==
    /\ UNCHANGED OtherComponents
    /\ pc = "setup"
    /\ debug' = {}
    /\ IF playwright # "None"
       THEN /\ stats' = [stats EXCEPT !.attempts = @ + 1, !.stages = <<"setup">>]
            /\ pc' = "goto"
            /\ UNCHANGED <<playwright, driverRunning, exc, result>>
       ELSE /\ stats' = [stats EXCEPT !.attempts = @ + 1, !.stages = <<>>]
            /\ IF o = "ok"
               THEN /\ playwright' = "driver"
                    /\ driverRunning' = TRUE
                    /\ pc' = "launch"
                    /\ UNCHANGED <<exc, result>>
               ELSE Fail("start_raises") /\ UNCHANGED <<playwright, driverRunning>>
    /\ UNCHANGED <<browser, page, browserOpen, pageLive, pageUrl, cache, now, callArgs,
                   attempt, ret, cached, histVars>>

\* lines 318-326: self.browser = await self.playwright.chromium.launch(...)
Launch(o) ==
    /\ UNCHANGED NotCoordinator
    /\ pc = "launch"
    /\ IF o = "ok"
       THEN /\ browser' = "browser"
            /\ browserOpen' = TRUE
            /\ pc' = "new_context"
            /\ UNCHANGED <<exc, result>>
       ELSE Fail("launch_raises") /\ UNCHANGED <<browser, browserOpen>>
    /\ UNCHANGED <<playwright, page, driverRunning, pageLive, pageUrl, cache, debug, now,
                   callArgs, attempt, ret, cached, stats, histVars>>

\* lines 328-331: context = await self.browser.new_context(...)
NewContext(o) ==
    /\ UNCHANGED NotCoordinator
    /\ pc = "new_context"
    /\ IF o = "ok"
       THEN pc' = "new_page" /\ UNCHANGED <<exc, result>>
       ELSE Fail("new_context_raises")
    /\ UNCHANGED <<objVars, envVars, pageUrl, cache, debug, now, callArgs, attempt, ret,
                   cached, stats, histVars>>

\* line 333: self.page = await context.new_page()
NewPage(o) ==
    /\ UNCHANGED NotCoordinator
    /\ pc = "new_page"
    /\ IF o = "ok"
       THEN /\ page' = "page"
            /\ pageLive' = TRUE
            /\ pageUrl' = Blank
            /\ pc' = "route"
            /\ UNCHANGED <<exc, result>>
       ELSE Fail("new_page_raises") /\ UNCHANGED <<page, pageLive, pageUrl>>
    /\ UNCHANGED <<playwright, browser, driverRunning, browserOpen, cache, debug, now,
                   callArgs, attempt, ret, cached, stats, histVars>>

\* lines 336-337: await self.page.route(...); _setup_browser returns
Route(o) ==
    /\ UNCHANGED NotCoordinator
    /\ pc = "route"
    /\ IF o = "ok"
       THEN pc' = "goto" /\ UNCHANGED <<exc, result>>
       ELSE Fail("route_raises")
    /\ stats' = IF o = "ok" THEN Passed("setup") ELSE stats
    /\ UNCHANGED <<objVars, envVars, pageUrl, cache, debug, now, callArgs, attempt, ret,
                   cached, histVars>>

\* self.page.goto(url, ...) with url = "...Cnpjreva_Solicitacao.asp?cnpj={cnpj}".
\* self.page may be None (AttributeError) or a page of a closed browser.
Goto(o) ==
    /\ UNCHANGED NotCoordinator
    /\ pc = "goto"
    /\ IF page = "None" \/ ~pageLive
       THEN Fail("page_unusable") /\ UNCHANGED pageUrl
       ELSE IF o = "ok"
            THEN /\ pageUrl' = SolicitacaoUrl(cnpj_clean)
                 /\ pc' = "captcha"
                 /\ UNCHANGED <<exc, result>>
            ELSE Fail("goto_timeout") /\ UNCHANGED pageUrl
    /\ stats' = IF page # "None" /\ pageLive /\ o = "ok" THEN Passed("goto") ELSE stats
    /\ UNCHANGED <<objVars, envVars, cache, debug, now, callArgs, attempt, ret, cached,
                   histVars>>

\* asyncio.sleep(2) of line 354, after the token has been written into the form
TokenSettleSeconds == 2

\* lines 357-358: the exception e is caught and _save_debug_info("captcha_error") is
\* called; lines 374-377: without a page it returns at once, with one it awaits the
\* screenshot
Caught(msg) ==
    /\ exc' = Exception(msg)
    /\ result' = None
    /\ pc' = IF page = "None" THEN "cleanup" ELSE "screenshot"

\* _solve_captcha, line 342: element = await self.page.wait_for_selector(
\* "[data-sitekey]", timeout=10000).  The wait is for the element to be visible, so
\* it returns the element or raises: the else side of "if element" is never taken.
WaitForSitekey(o) ==
    /\ UNCHANGED NotCoordinator
    /\ pc = "captcha"
    /\ IF o = "ok"
       THEN pc' = "get_attribute" /\ UNCHANGED <<exc, result>>
       ELSE Caught("selector_timeout")
    /\ UNCHANGED <<objVars, envVars, pageUrl, cache, debug, now, callArgs, attempt, ret,
                   cached, stats, histVars>>

\* line 344: sitekey = await element.get_attribute("data-sitekey")
GetAttribute(o) ==
    /\ UNCHANGED NotCoordinator
    /\ pc = "get_attribute"
    /\ IF o = "ok"
       THEN pc' = "solve" /\ UNCHANGED <<exc, result>>
       ELSE Caught("get_attribute_raises")
    /\ UNCHANGED <<objVars, envVars, pageUrl, cache, debug, now, callArgs, attempt, ret,
                   cached, stats, histVars>>

\* what solve_hcaptcha returns: a token or None (it catches what its requests raise)
SolveReturns == {"token", "no_token"}

\* the sleeps solve_hcaptcha can be suspended in: asyncio.sleep(3) after a
\* CAPCHA_NOT_READY answer (line 108) and asyncio.sleep(5) after a request that
\* raised (line 112), both in _wait_solution.  The sleep of line 61 is never taken.
SolveSleeps == {PollSleep, ErrorSleep}

\* line 345, token = await self.captcha_client.solve_hcaptcha(sitekey, self.page.url):
\* the call is suspended in one sleep of _wait_solution and the sleep ends; clock is
\* the time the call has taken so far
SolveSleep(d) ==
    /\ UNCHANGED NotCoordinatorNorClock
    /\ pc = "solve"
    /\ clock' = clock + d
    /\ now' = now + d
    /\ UNCHANGED <<objVars, envVars, pageUrl, cache, debug, pc, callArgs, attempt, result,
                   exc, ret, cached, stats, histVars>>

SolveHcaptchaWithoutToken(r) ==
    /\ UNCHANGED NotCoordinatorNorClock
    /\ pc = "solve"
    /\ clock' = 0
    /\ pc' = IF r = "token" THEN "evaluate" ELSE "submit"
    /\ UNCHANGED <<exc, result>>
    /\ UNCHANGED <<objVars, envVars, pageUrl, cache, debug, now, callArgs, attempt, ret,
                   cached, stats, histVars>>

\* lines 345-347 and 355-356: solve_hcaptcha returns; with a token page.evaluate is
\* called, without one the method raises
SolveHcaptcha(r) ==
    /\ UNCHANGED NotCoordinatorNorClock
    /\ pc = "solve"
    /\ clock' = 0
    /\ IF r = "token"
       THEN pc' = "evaluate" /\ UNCHANGED <<exc, result>>
       ELSE Caught("no_token")
    /\ UNCHANGED <<objVars, envVars, pageUrl, cache, debug, now, callArgs, attempt, ret,
                   cached, stats, histVars>>

\* lines 348-353: await self.page.evaluate(...), which writes the token into the two
\* textareas of the form
Evaluate(o) ==
    /\ UNCHANGED NotCoordinator
    /\ pc = "evaluate"
    /\ IF o = "ok"
       THEN pc' = "sleep" /\ UNCHANGED <<exc, result>>
       ELSE Caught("evaluate_raises")
    /\ UNCHANGED <<objVars, envVars, pageUrl, cache, debug, now, callArgs, attempt, ret,
                   cached, stats, histVars>>

\* line 354: await asyncio.sleep(2) ends and _solve_captcha returns
Settle ==
    /\ UNCHANGED NotCoordinator
    /\ pc = "sleep"
    /\ now' = now + TokenSettleSeconds
    /\ pc' = "submit"
    /\ stats' = Passed("captcha")
    /\ UNCHANGED <<objVars, envVars, pageUrl, cache, debug, callArgs, attempt, result, exc,
                   ret, cached, histVars>>

\* _save_debug_info, lines 376-377: await self.page.screenshot(path=...png); an
\* exception is swallowed by line 380 and line 359 raises e again
Screenshot(o) ==
    /\ UNCHANGED NotCoordinator
    /\ pc = "screenshot"
    /\ o = "ok" => ~CacheDirDenied
    /\ debug' = IF o = "ok" THEN debug \cup {<<"captcha_error", "png">>} ELSE debug
    /\ pc' = IF o = "ok" THEN "content" ELSE "cleanup"
    /\ UNCHANGED <<objVars, envVars, pageUrl, cache, now, callArgs, attempt, result, exc,
                   ret, cached, stats, histVars>>

\* _save_debug_info, lines 378-381: html = await self.page.content(), then the write
\* of the .html file; an exception of either is swallowed; line 359 raises e again
Content(o) ==
    /\ UNCHANGED NotCoordinator
    /\ pc = "content"
    /\ o = "ok" => ~CacheDirDenied
    /\ debug' = IF o = "ok" THEN debug \cup {<<"captcha_error", "html">>} ELSE debug
    /\ pc' = "cleanup"
    /\ UNCHANGED <<objVars, envVars, pageUrl, cache, now, callArgs, attempt, result, exc,
                   ret, cached, stats, histVars>>

\* _submit_query, line 363: button = await self.page.wait_for_selector(
\* "button.btn-primary", timeout=10000); no line of _submit_query catches a failure
\* of it or of the click
WaitForButton(o) ==
    /\ UNCHANGED NotCoordinator
    /\ pc = "submit"
    /\ IF o = "ok"
       THEN pc' = "click" /\ UNCHANGED <<exc, result>>
       ELSE Fail("button_timeout")
    /\ UNCHANGED <<objVars, envVars, pageUrl, cache, debug, now, callArgs, attempt, ret,
                   cached, stats, histVars>>

\* line 364: await button.click()
Click(o) ==
    /\ UNCHANGED NotCoordinator
    /\ pc = "click"
    /\ IF o = "ok"
       THEN pc' = "wait_url" /\ UNCHANGED <<exc, result>>
       ELSE Fail("click_raises")
    /\ UNCHANGED <<objVars, envVars, pageUrl, cache, debug, now, callArgs, attempt, ret,
                   cached, stats, histVars>>

\* lines 367-369: await self.page.wait_for_url("**/Cnpjreva_Comprovante.asp**"), which
\* returns once the page shows the result document; whatever it raises is caught by
\* the bare except and the text is waited for
WaitForUrl(o) ==
    /\ UNCHANGED NotCoordinator
    /\ pc = "wait_url"
    /\ pageUrl' = IF o = "ok" THEN ResultUrl(cnpj_clean) ELSE pageUrl
    /\ pc' = IF o = "ok" THEN "extract" ELSE "wait_text"
    /\ stats' = IF o = "ok" THEN Passed("submit") ELSE stats
    /\ UNCHANGED <<objVars, envVars, cache, debug, now, callArgs, attempt, result, exc,
                   ret, cached, histVars>>

\* what the page shows when the text is found after wait_for_url has failed: the
\* document it showed before, or the result document it has reached since
LateUrls == {"unchanged", "navigated"}

\* line 370: await self.page.wait_for_selector("text=COMPROVANTE DE INSCRICAO",
\* timeout=15000); no line assigns the URL
WaitForText(o, u) ==
    /\ UNCHANGED NotCoordinator
    /\ pc = "wait_text"
    /\ IF o = "ok"
       THEN /\ pageUrl' = IF u = "navigated" THEN ResultUrl(cnpj_clean) ELSE pageUrl
            /\ pc' = "extract"
            /\ UNCHANGED <<exc, result>>
       ELSE Fail("not_found") /\ UNCHANGED pageUrl
    /\ stats' = IF o = "ok" THEN Passed("submit") ELSE stats
    /\ UNCHANGED <<objVars, envVars, cache, debug, now, callArgs, attempt, ret, cached,
                   histVars>>

\* lines 303-308: inner_text of the body, extract_from_text, url_consulta, asdict
Extract(o, text) ==
    /\ UNCHANGED NotCoordinator
    /\ pc = "extract"
    /\ IF o = "ok"
       THEN /\ result' = Record(now, pageUrl, text)
            /\ exc' = exc
            /\ pc' = "cleanup"
       ELSE Fail("inner_text_raises")
    /\ stats' = IF o = "ok" THEN Passed("extract") ELSE stats
    /\ UNCHANGED <<objVars, envVars, pageUrl, cache, debug, now, callArgs, attempt, ret,
                   cached, histVars>>

CloseOutcomes == {"ok", "raises_kept", "raises_gone"}

\* finally: _cleanup, lines 426-428: if self.browser: await self.browser.close();
\* self.browser = None.  close() raising leaves the method: self.browser stays set
\* and playwright.stop() is not called.  An exception of the finally clause replaces
\* the attempt's result or exception.
Cleanup(c) ==
    /\ UNCHANGED NotCoordinator
    /\ pc = "cleanup"
    /\ IF browser = "None"
       THEN /\ pc' = "stop"
            /\ UNCHANGED <<browser, browserOpen, pageLive, pageUrl, exc, result, stats>>
       ELSE /\ browser' = IF c = "ok" THEN "None" ELSE browser
            /\ browserOpen' = IF c = "raises_kept" THEN browserOpen ELSE FALSE
            /\ pageLive' = IF c = "raises_kept" THEN pageLive ELSE FALSE
            /\ pageUrl' = IF c = "raises_kept" /\ pageLive THEN pageUrl ELSE Blank
            /\ exc' = IF c = "ok" THEN exc ELSE Exception("close_raises")
            /\ result' = IF c = "ok" THEN result ELSE None
            /\ pc' = IF c = "ok" THEN "stop" ELSE "after"
            /\ stats' = IF c = "ok" THEN stats ELSE Passed("cleanup")
    /\ UNCHANGED <<playwright, page, driverRunning, cache, debug, now, callArgs, attempt,
                   ret, cached, histVars>>

\* _cleanup, lines 429-431: if self.playwright: await self.playwright.stop();
\* self.playwright = None
CleanupStop(o) ==
    /\ UNCHANGED NotCoordinator
    /\ pc = "stop"
    /\ IF playwright = "None"
       THEN UNCHANGED <<playwright, driverRunning, exc, result>>
       ELSE /\ playwright' = IF o = "ok" THEN "None" ELSE playwright
            /\ driverRunning' = IF o = "ok" THEN FALSE ELSE driverRunning
            /\ exc' = IF o = "ok" THEN exc ELSE Exception("stop_raises")
            /\ result' = IF o = "ok" THEN result ELSE None
    /\ pc' = "after"
    /\ stats' = Passed("cleanup")
    /\ UNCHANGED <<browser, page, browserOpen, pageLive, pageUrl, cache, debug, now,
                   callArgs, attempt, ret, cached, histVars>>

-----------------------------------------------------------------------------
(* consultar, lines 269-286: what follows an attempt *)

ReturnResultPropagates(w) ==
    /\ UNCHANGED NotCoordinator
    /\ pc = "after"
    /\ exc = None
    /\ IF ShouldSave(result, use_cache)
       THEN cache' = _save_cache(cache, cnpj_clean, result, w) /\ saved' = w
       ELSE UNCHANGED <<cache, saved>>
    /\ IF ShouldSave(result, use_cache) /\ w # "ok"
       THEN exc' = Exception("save_raises") /\ UNCHANGED <<ret, pc>>
       ELSE ret' = Returned(result) /\ pc' = "done" /\ exc' = exc
    /\ UNCHANGED <<objVars, envVars, pageUrl, debug, now, callArgs, attempt, result,
                   cached, stats, cache0, callTime, calls>>

\* lines 273-277: save in the cache if successful and use_cache; return result
ReturnResult(w) ==
    /\ UNCHANGED NotCoordinator
    /\ pc = "after"
    /\ exc = None
    /\ IF ShouldSave(result, use_cache)
       THEN cache' = _save_cache(cache, cnpj_clean, result, w) /\ saved' = w
       ELSE UNCHANGED <<cache, saved>>
    /\ ret' = Returned(result)
    /\ pc' = "done"
    /\ UNCHANGED <<objVars, envVars, pageUrl, debug, now, callArgs, attempt, result, exc,
                   cached, stats, cache0, callTime, calls>>

\* lines 279-282: except Exception, attempt < max_retries - 1: sleep(10), next attempt;
\* line 286 is where the call ends if the loop runs out
Backoff ==
    /\ UNCHANGED NotCoordinator
    /\ pc = "after"
    /\ exc # None
    /\ RetryAgain(attempt)
    /\ now' = now + BackoffSeconds
    /\ attempt' = attempt + 1
    /\ exc' = None
    /\ stats' = [stats EXCEPT !.failed = @ + 1, !.sleeps = @ + 1, !.stages = <<>>]
    /\ IF attempt + 1 < MaxRetries
       THEN pc' = "setup" /\ ret' = ret
       ELSE /\ pc' = "done"
            /\ ret' = Returned(_error_response("Maximo de tentativas excedido",
                                               now + BackoffSeconds))
    /\ UNCHANGED <<objVars, envVars, pageUrl, cache, debug, callArgs, result, cached,
                   histVars>>

\* lines 283-284: the last attempt failed: return self._error_response(str(e))
GiveUp ==
    /\ UNCHANGED NotCoordinator
    /\ pc = "after"
    /\ exc # None
    /\ ~RetryAgain(attempt)
    /\ ret' = Returned(_error_response(exc.msg, now))
    /\ stats' = [stats EXCEPT !.failed = @ + 1]
    /\ pc' = "done"
    /\ UNCHANGED <<objVars, envVars, pageUrl, cache, debug, now, callArgs, attempt,
                   result, exc, cached, histVars>>

-----------------------------------------------------------------------------

Next ==
    \/ \E s \in (IF calls = 0 THEN Inputs ELSE LaterInputs), uc \in BOOLEAN,
          d \in (IF calls = 0 THEN {0} ELSE LaterElapsed) :
          calls < MaxCalls /\ Consultar(s, uc, d) /\ UNCHANGED <<first_cnpj, acquired>>
    \/ CheckCache
    \/ \E o \in AwaitOutcomes : SetupBrowser(o) /\ UNCHANGED acquired
    \/ \E o \in AwaitOutcomes : Launch(o)
    \/ \E o \in AwaitOutcomes : NewContext(o)
    \/ \E o \in AwaitOutcomes : NewPage(o)
    \/ \E o \in AwaitOutcomes : Route(o)
    \/ \E o \in AwaitOutcomes : Goto(o)
    \/ \E o \in AwaitOutcomes : WaitForSitekey(o)
    \/ \E o \in AwaitOutcomes : GetAttribute(o)
    \/ \E d \in SolveSleeps : clock + d <= MaxSolveSeconds /\ SolveSleep(d)
    \/ \E r \in SolveReturns : SolveHcaptcha(r)
    \/ \E o \in AwaitOutcomes : Evaluate(o)
    \/ Settle
    \/ \E o \in AwaitOutcomes : Screenshot(o)
    \/ \E o \in AwaitOutcomes : Content(o)
    \/ \E o \in AwaitOutcomes : WaitForButton(o)
    \/ \E o \in AwaitOutcomes : Click(o)
    \/ \E o \in AwaitOutcomes : WaitForUrl(o)
    \/ \E o \in AwaitOutcomes, u \in LateUrls : WaitForText(o, u)
    \/ \E o \in AwaitOutcomes, text \in PageTexts : Extract(o, text)
    \/ \E c \in CloseOutcomes : Cleanup(c)
    \/ \E o \in AwaitOutcomes : CleanupStop(o)
    \/ \E w \in SaveOutcomes : ReturnResult(w)
    \/ Backoff
    \/ GiveUp

Spec == Init /\ [][Next]_vars

-----------------------------------------------------------------------------
(* Vocabulary of the properties *)

\* the input of the current call has exactly 14 digits once its non-digits are stripped
Normalizes == Len(SelectChars(cnpj, UnicodeDigits)) = 14

IsFourteenAsciiDigits(id) == Len(id) = 14 /\ \A i \in 1..Len(id) : id[i] \in AsciiDigits

Done == calls > 0 /\ pc = "done"

ReturnedSuccess == ret.kind = "returned" /\ ret.value.kind = "record" /\ ret.value.sucesso = TRUE

ReturnedFailure == ret.kind = "returned" /\ ret.value.kind = "erro" /\ ret.value.sucesso = FALSE

SessionReleased ==
    playwright = "None" /\ browser = "None" /\ ~browserOpen /\ ~driverRunning

-----------------------------------------------------------------------------
(* C1  Retry ceiling: a call never makes more than 3 attempts, and a call in   *)
(* which every attempt failed ends, after exactly 3 attempts, by returning the *)
(* failure record {erro, metadados.sucesso = false}; it does not raise.        *)
C1_RetryCeiling ==
    /\ stats.attempts <= 3
    /\ (Done /\ stats.attempts > 0 /\ stats.failed = stats.attempts)
          => (stats.attempts = 3 /\ ReturnedFailure)
    /\ (Done /\ ret.kind = "returned" /\ ret.value.kind = "erro")
          => (stats.attempts = 3 /\ stats.failed = 3 /\ ReturnedFailure)

\* three attempts failed, the last one at the result-page wait
C1_Witness ==
    Done /\ stats.attempts = 3 /\ stats.failed = 3 /\ ReturnedFailure
         /\ ret.value.erro = "not_found"

(* C2  Guaranteed session release: when an attempt has ended (before the       *)
(* backoff sleep or the return) and when consultar has returned, the browser   *)
(* is closed, the driver stopped and self.browser, self.playwright are None.   *)
C2_SessionReleased ==
    pc \in {"after", "done"} => SessionReleased

(* C3  For an identifier that normalizes to 14 digits consultar returns a      *)
(* record, either one with sucesso = true or the error record with             *)
(* sucesso = false, whatever the stages, the cache and the release did; it     *)
(* raises exactly when the identifier is invalid.                              *)
C3_AlwaysARecord ==
    Done => IF Normalizes
            THEN ReturnedSuccess \/ ReturnedFailure
            ELSE ret = Raised("ValueError")

(* C4  Cache hit: with use_cache, when the entry of the normalized id is       *)
(* readable and less than 24h old, consultar returns exactly that entry, and   *)
(* no attempt is begun (no session, challenge or extraction), nothing is       *)
(* written to the cache.                                                       *)
C4_CacheHit ==
    (calls > 0 /\ Normalizes /\ use_cache /\ pc # "check_cache"
       /\ cache0[cnpj_clean].kind = "record"
       /\ callTime - cache0[cnpj_clean].timestamp < 86400)
    => /\ pc = "done"
       /\ ret = Returned(cache0[cnpj_clean])
       /\ stats = ZeroStats
       /\ saved = "not_called"
       /\ cache = cache0
       /\ debug = {}

\* a hit on an entry that is one second short of 24h old
C4_Witness ==
    Done /\ use_cache /\ cached # NotCalled /\ cached # None /\ ret = Returned(cached)
         /\ callTime - cached.timestamp = 86399

(* C5  Input validation fails fast: when the input, stripped of its            *)
(* non-digits, is not exactly 14 characters long, the call ends at once by     *)
(* raising the invalid-identifier error: no cache lookup, no attempt, no       *)
(* backoff sleep, no cache write.                                              *)
C5_InvalidFailsFast ==
    (calls > 0 /\ ~Normalizes)
    => /\ pc = "done"
       /\ ret = Raised("ValueError")
       /\ cached = NotCalled
       /\ stats = ZeroStats
       /\ saved = "not_called"
       /\ cache = cache0

\* fifteen digits, with use_cache and an entry in the cache
C5_Witness ==
    Done /\ cnpj = Fifteen /\ use_cache /\ ret = Raised("ValueError")
         /\ cache[Plain].kind = "record"

(* C6  The cache is written only by a successful consultation: the cache       *)
(* differs from what it was when the call began only if the call has returned  *)
(* a record with sucesso = true, use_cache is true and the lookup missed; only *)
(* the entry of the call's id differs; no entry ever holds an error record.    *)
C6_CacheWrittenOnlyOnSuccess ==
    /\ (calls > 0 /\ cache # cache0)
          => /\ Done /\ use_cache /\ ReturnedSuccess /\ cached = None
             /\ \A k \in CacheKeys : k # cnpj_clean => cache[k] = cache0[k]
             /\ cache[cnpj_clean] \in {ret.value, Corrupt}
    /\ \A k \in CacheKeys : cache[k].kind \in {"absent", "corrupt", "denied", "record"}
    /\ \A k \in CacheKeys : cache[k].kind = "record" => cache[k].sucesso = TRUE

\* a stale entry is replaced by the record of a successful call
C6_Witness ==
    Done /\ Normalizes /\ cache0[cnpj_clean].kind = "record"
         /\ cache[cnpj_clean].kind = "record"
         /\ cache[cnpj_clean] # cache0[cnpj_clean] /\ cache[cnpj_clean] = ret.value

C8_CorruptIsMiss ==
    (calls > 0 /\ Normalizes /\ use_cache /\ cache0[cnpj_clean] \in {Corrupt, Denied}
       /\ pc # "check_cache")
    => /\ cached = None
       /\ ret.kind # "raised"
       /\ stats.attempts >= 1 \/ pc = "setup"
       /\ Done => (stats.attempts >= 1 /\ (ReturnedSuccess \/ ReturnedFailure))

(* C9  A cache write failure is not propagated: when _save_cache fails the     *)
(* call returns the record of that attempt, with sucesso = true, and begins no *)
(* further attempt; when the write succeeds the entry of the id is the         *)
(* returned record, whatever it was before.                                    *)
C9_SaveFailureSwallowed ==
    /\ (calls > 0 /\ saved \in {"raises_untouched", "raises_truncated"})
          => /\ pc = "done"
             /\ ret = Returned(result) /\ ReturnedSuccess
             /\ stats.attempts = stats.failed + 1
    /\ (calls > 0 /\ saved = "ok")
          => (pc = "done" /\ ReturnedSuccess /\ cache[cnpj_clean] = ret.value)

\* the write failed in the second attempt, over an existing entry
C9_Witness ==
    Done /\ saved = "raises_truncated" /\ stats.attempts = 2 /\ ReturnedSuccess
         /\ cache0[cnpj_clean].kind = "record"

(* C10  Identifier invariant: every id used as a cache key or placed in the    *)
(* query URL consists of exactly 14 ASCII digits.                              *)
C10_IdIsFourteenAsciiDigits ==
    /\ (calls > 0 /\ ret.kind # "raised") => IsFourteenAsciiDigits(cnpj_clean)
    /\ pageUrl.doc # "about:blank" => IsFourteenAsciiDigits(pageUrl.cnpj)
    /\ \A k \in CacheKeys : cache[k] # cache0[k] => IsFourteenAsciiDigits(k)

-----------------------------------------------------------------------------
(* SolveCaptchaClient, lines 32-114 *)

\* timeout=30 of session.get, line 97: the longest a poll request takes
RequestTimeout == 30

\* Seconds one GET /res.php request can take
PollDurations == {0, 1, RequestTimeout}

\* What a request can come back with: the session call or response.json() raises,
\* or the JSON object {status, request}; "<missing>" is an object without the key
Answer(st, rq) == [raises |-> FALSE, status |-> st, request |-> rq]

RequestRaises == [raises |-> TRUE, status |-> 0, request |-> "<missing>"]

SubmitResponses ==
    {Answer(1, "ID"), Answer(1, "ID2"), Answer(0, "ERROR_ZERO_BALANCE"),
     Answer(1, "<missing>"),
     RequestRaises}

PollResponses ==
    {Answer(1, "P1_TOKEN"), Answer(1, ""), Answer(1, "<missing>"),
     Answer(0, "CAPCHA_NOT_READY"), Answer(0, "ERROR_CAPTCHA_UNSOLVABLE"),
     Answer(0, "<missing>"), RequestRaises}

\* The solution the service holds for a ticket
TokenOf(id) == IF id = "ID2" THEN "P2_TOKEN" ELSE "P1_TOKEN"

\* What GET /res.php?id=... can come back with: as PollResponses, the solution being
\* the one of the ticket asked for
PollResponsesFor(id) ==
    {IF r = Answer(1, "P1_TOKEN") THEN Answer(1, TokenOf(id)) ELSE r : r \in PollResponses}

\* Python's truth value of an Optional[str]
Truthy(s) == s \notin {"None", ""}

\* _submit_captcha, lines 65-84: result['request'] when status is 1, None when the
\* status is anything else or anything in the try block raised (a missing key too)
_submit_captcha(r) ==
    IF ~r.raises /\ r.status = 1 /\ r.request # "<missing>" THEN r.request ELSE "None"

\* The body of the while loop of _wait_solution for one answer, lines 91-112
PollStepErrorKeepsPolling(r) ==
    IF r.raises THEN "sleep5"
    ELSE IF r.status = 1
         THEN IF r.request = "<missing>" THEN "sleep5" ELSE "return"
    ELSE "sleep3"

PollStepNoSleepOnError(r) ==
    IF r.raises THEN "loop"
    ELSE IF r.status = 1
         THEN IF r.request = "<missing>" THEN "loop" ELSE "return"
    ELSE IF r.request # "CAPCHA_NOT_READY" THEN "break"
    ELSE "sleep3"

PollStep(r) ==
    IF r.raises THEN "sleep5"
    ELSE IF r.status = 1
         THEN IF r.request = "<missing>" THEN "sleep5" ELSE "return"
    ELSE IF r.request # "CAPCHA_NOT_READY" THEN "break"
    ELSE "sleep3"

\* line 96: 'id': captcha_id, the parameter of _wait_solution
res_php_id_of_first_ticket == "ID"

res_php_id == captcha_id

\* The condition of "while time.time() - start_time < self.timeout", line 90
KeepPollingInclusive(t, start) == t - start <= timeout

KeepPolling(t, start) == t - start < timeout

MoreAttemptsInclusive(a) == a <= max_retries - 1

\* for attempt in range(max_retries), line 46: is there another iteration
MoreAttempts(a) == a < max_retries - 1

\* No consultar call was made: the coordinator as constructed, with an empty cache
CoordinatorParked ==
    /\ playwright = "None" /\ browser = "None" /\ page = "None"
    /\ driverRunning = FALSE /\ browserOpen = FALSE /\ pageLive = FALSE
    /\ pageUrl = Blank
    /\ cache = [k \in CacheKeys |-> Absent]
    /\ debug = {}
    /\ now = 0
    /\ pc = "idle"
    /\ cnpj = <<>> /\ use_cache = TRUE /\ cnpj_clean = <<>>
    /\ attempt = 0
    /\ result = None /\ exc = None /\ ret = None
    /\ cached = NotCalled
    /\ saved = "not_called"
    /\ cache0 = cache
    /\ callTime = 0
    /\ stats = ZeroStats
    /\ calls = 0
    /\ first_cnpj = <<>>
    /\ acquired = 0

\* solve_hcaptcha is called: the first iteration of the for loop begins
ClientInit ==
    /\ client_pc = "submit" /\ client_attempt = 0 /\ captcha_id = "None"
    /\ token = "None" /\ start_time = 0 /\ clock = 0 /\ response = NoResponse
    /\ client_ret = NotCalled /\ submits = 0 /\ polls = 0 /\ pollAt = 0
    /\ sleptSincePoll = FALSE /\ sleptSinceFail = FALSE /\ waitExit = "none"
    /\ ticket = "None" /\ poll_id = "None"
    /\ CoordinatorParked /\ ExtractorParked /\ SeleniumParked /\ ConcurrentParked /\ LegacyParked

\* The attempt obtained no token: the next iteration of the for loop, or after the
\* last one "return None" (line 63).  No statement lies between the end of a failed
\* iteration and the next _submit_captcha: the sleep of line 61 is in the handler of
\* "except Exception", and neither _submit_captcha nor _wait_solution lets an
\* Exception out.
AttemptFailed ==
    /\ sleptSinceFail' = FALSE
    /\ IF MoreAttempts(client_attempt)
       THEN /\ client_attempt' = client_attempt + 1
            /\ client_pc' = "submit"
            /\ client_ret' = client_ret
       ELSE /\ client_attempt' = client_attempt
            /\ client_pc' = "done"
            /\ client_ret' = Returned("None")

\* lines 49-51: captcha_id = await self._submit_captcha(...); if not captcha_id:
\* continue; otherwise _wait_solution begins with start_time = time.time() (line 88)
SubmitCaptcha(r) ==
    /\ client_pc = "submit"
    /\ submits' = submits + 1
    /\ response' = r
    /\ captcha_id' = _submit_captcha(r)
    /\ ticket' = IF ~r.raises /\ r.status = 1 /\ r.request # "<missing>"
                 THEN r.request ELSE "None"
    /\ poll_id' = "None"
    /\ IF Truthy(_submit_captcha(r))
       THEN /\ client_pc' = "loop"
            /\ start_time' = clock
            /\ polls' = 0 /\ pollAt' = 0 /\ sleptSincePoll' = FALSE
            /\ waitExit' = "none"
            /\ UNCHANGED <<client_attempt, client_ret, sleptSinceFail>>
       ELSE /\ AttemptFailed
            /\ UNCHANGED <<start_time, polls, pollAt, sleptSincePoll, waitExit>>
    /\ UNCHANGED <<token, clock>>
    /\ UNCHANGED NotClient

\* lines 90-106: the loop condition holds, one GET /res.php taking d seconds, and
\* the branch its answer selects
Poll(r, d) ==
    /\ client_pc = "loop"
    /\ KeepPolling(clock, start_time)
    /\ polls' = polls + 1
    /\ poll_id' = res_php_id
    /\ r \in PollResponsesFor(res_php_id)
    /\ pollAt' = clock - start_time
    /\ sleptSincePoll' = FALSE
    /\ clock' = clock + d
    /\ response' = r
    /\ LET step == PollStep(r)
       IN  /\ client_pc' = IF step \in {"return", "break"} THEN "waited" ELSE step
           /\ token' = IF step = "return" THEN r.request ELSE "None"
           /\ waitExit' = IF step = "return" THEN "token"
                          ELSE IF step = "break" THEN "error" ELSE "none"
    /\ UNCHANGED <<client_attempt, captcha_id, start_time, client_ret, submits,
                   sleptSinceFail, ticket>>
    /\ UNCHANGED NotClient

\* lines 108 and 112: await asyncio.sleep(3) or await asyncio.sleep(5), then back
\* to the loop condition
Sleep ==
    /\ client_pc \in {"sleep3", "sleep5"}
    /\ clock' = clock + (IF client_pc = "sleep3" THEN PollSleep ELSE ErrorSleep)
    /\ sleptSincePoll' = TRUE
    /\ sleptSinceFail' = TRUE
    /\ client_pc' = "loop"
    /\ UNCHANGED <<client_attempt, captcha_id, token, start_time, response, client_ret,
                   submits, polls, pollAt, waitExit, ticket, poll_id>>
    /\ UNCHANGED NotClient

\* lines 90 and 114: the loop condition fails, return None
TimeOut ==
    /\ client_pc = "loop"
    /\ ~KeepPolling(clock, start_time)
    /\ token' = "None"
    /\ waitExit' = "timeout"
    /\ client_pc' = "waited"
    /\ UNCHANGED <<client_attempt, captcha_id, start_time, clock, response, client_ret,
                   submits, polls, pollAt, sleptSincePoll, sleptSinceFail, ticket, poll_id>>
    /\ UNCHANGED NotClient

\* lines 54-56: token = await self._wait_solution(captcha_id); if token: return token
AfterWaitIgnoresToken ==
    /\ client_pc = "waited"
    /\ AttemptFailed
    /\ UNCHANGED <<captcha_id, token, start_time, clock, response, submits, polls,
                   pollAt, sleptSincePoll, waitExit, ticket, poll_id>>
    /\ UNCHANGED NotClient

AfterWait ==
    /\ client_pc = "waited"
    /\ IF Truthy(token)
       THEN /\ client_ret' = Returned(token)
            /\ client_pc' = "done"
            /\ UNCHANGED <<client_attempt, sleptSinceFail>>
       ELSE AttemptFailed
    /\ UNCHANGED <<captcha_id, token, start_time, clock, response, submits, polls,
                   pollAt, sleptSincePoll, waitExit, ticket, poll_id>>
    /\ UNCHANGED NotClient

ClientNext ==
    \/ \E r \in SubmitResponses : SubmitCaptcha(r)
    \/ \E r \in PollResponsesFor("ID") \cup PollResponsesFor("ID2"), d \in PollDurations :
          Poll(r, d)
    \/ Sleep
    \/ TimeOut
    \/ AfterWait

ClientSpec == ClientInit /\ [][ClientNext]_vars

\* The same with the scheduling of an asyncio task that is never cancelled: a
\* request returns or times out, a sleep ends, and the next statement runs
ClientLive == ClientSpec /\ WF_vars(ClientNext)

-----------------------------------------------------------------------------
(* Properties of SolveCaptchaClient *)

\* The answer carries status 1 and a request value: the solution token
Solved(r) == ~r.raises /\ r.status = 1 /\ r.request # "<missing>"

\* The answer is an object whose status is not 1 and whose request is not
\* CAPCHA_NOT_READY
Refused(r) == ~r.raises /\ r.status # 1 /\ r.request # "CAPCHA_NOT_READY"

InWaitLoop == client_pc \in {"loop", "sleep3", "sleep5"}

\* C11: _wait_solution goes on polling only while every answer so far was neither a
\* solution nor a refusal, and it ends in exactly one of three ways: with the token
\* of the answer that carried status 1, with None on the answer that refused, or
\* with None once time.time() - start_time has reached the timeout; no poll begins
\* with the elapsed time at or beyond the timeout.
C11_WaitExits ==
    /\ (InWaitLoop /\ polls > 0) => (~Solved(response) /\ ~Refused(response))
    /\ polls > 0 => pollAt < timeout
    /\ client_pc = "waited" =>
          /\ polls > 0
          /\ \/ Solved(response) /\ token = response.request /\ waitExit = "token"
             \/ Refused(response) /\ token = "None" /\ waitExit = "error"
             \/ /\ ~Solved(response) /\ ~Refused(response)
                /\ token = "None" /\ waitExit = "timeout"
                /\ clock - start_time >= timeout

\* _wait_solution polled while the service answered not-ready and then timed out
C11_Witness ==
    /\ client_pc = "waited" /\ waitExit = "timeout" /\ polls = 2
    /\ response = Answer(0, "CAPCHA_NOT_READY")

\* C12: within one _wait_solution call a poll after the first begins only after a
\* sleep that ended since the poll before it, whatever that poll's answer was.
C12_NeverSpins ==
    (client_pc = "loop" /\ polls > 0) => sleptSincePoll

\* Back at the loop condition after a second poll whose answer was malformed
C12_Witness ==
    /\ client_pc = "loop" /\ polls = 2 /\ sleptSincePoll
    /\ response = Answer(1, "<missing>")

\* C13: every _wait_solution call returns, and it makes at most as many polls as
\* sleeps of the shorter interval fit into the timeout: the n-th poll begins no
\* earlier than (n - 1) * 3 seconds after start_time, which is below the timeout.
C13_WaitTerminates ==
    /\ [](polls > 0 => (polls - 1) * 3 < timeout)
    /\ InWaitLoop ~> (client_pc = "waited")

\* A call whose every request raised has returned by timing out
C13_Witness ==
    /\ client_pc = "waited" /\ waitExit = "timeout" /\ polls = 2
    /\ response = RequestRaises

\* C14: solve_hcaptcha makes at most 3 submits, one per attempt; once a
\* _wait_solution has returned a non-empty token the call returns that token without
\* another request; and it returns None only after the third attempt has failed.
C14_AttemptsAndShortCircuit ==
    /\ submits <= 3
    /\ submits <= client_attempt + 1
    /\ Truthy(token) => client_pc \in {"waited", "done"}
    /\ client_pc = "done" =>
          /\ client_ret.kind = "returned"
          /\ IF Truthy(token)
             THEN client_ret.value = token /\ submits = client_attempt + 1
             ELSE client_ret.value = "None" /\ submits = 3 /\ client_attempt = 2

\* The second attempt obtained the token and the call returned it
C14_Witness ==
    /\ client_pc = "done" /\ client_ret = Returned("P1_TOKEN")
    /\ client_attempt = 1 /\ submits = 2

\* C15: whenever a further attempt of solve_hcaptcha is about to submit, a sleep
\* has ended since the attempt before it failed.
C15_AttemptsSeparated ==
    (client_pc = "submit" /\ client_attempt > 0) => sleptSinceFail

\* C33: every poll of solve_hcaptcha carries the id that the submit of the same
\* attempt returned, no poll is made in an attempt whose submit returned no id, and
\* the token the call returns is the solution the service gave for that id.
C33_TicketCorrelation ==
    /\ poll_id # "None" => (ticket # "None" /\ poll_id = ticket)
    /\ client_pc \in {"loop", "sleep3", "sleep5", "waited"} => ticket # "None"
    /\ (client_pc = "done" /\ Truthy(client_ret.value)) =>
          /\ poll_id = ticket
          /\ response \in PollResponsesFor(ticket)
          /\ client_ret.value = response.request
          /\ client_ret.value = TokenOf(ticket)

\* The first attempt was given a ticket and failed, the second was given another
\* ticket, polled for it twice and returned its solution
C33_Witness ==
    /\ client_pc = "done" /\ client_attempt = 1 /\ submits = 2 /\ polls = 2
    /\ ticket = "ID2" /\ poll_id = "ID2"
    /\ client_ret = Returned("P2_TOKEN")

-----------------------------------------------------------------------------
(* CNPJDataExtractor.extract_from_text, lines 120-211                      *)
(*                                                                         *)
(* A string of the page text is a sequence of segments: the pieces between *)
(* its occurrences of the separator " - ".  A segment is a string without  *)
(* the separator and without surrounding blanks; the empty string is <<>>. *)
(* So " - " in s is Len(s) >= 2, and s.split(" - ", 1) is the first        *)
(* segment and the rest.  A raw line is a string with or without blanks    *)
(* around it.                                                              *)

\* Longest text drawn from the alphabet of lines, in lines
MaxLines == 3

RawLine(pad, s) == [pad |-> pad, segs |-> s]

\* str.strip()
strip(raw) == raw.segs

NaturezaHeader == "CÓDIGO E DESCRIÇÃO DA NATUREZA JURÍDICA"

PrincipalHeader == "CÓDIGO E DESCRIÇÃO DA ATIVIDADE ECONÔMICA PRINCIPAL"

SecundariasHeader == "CÓDIGO E DESCRIÇÃO DAS ATIVIDADES ECONÔMICAS SECUNDÁRIAS"

EmitidoLine == "Emitido no dia 03/11/2024 às 10:20:30 (data e hora de Brasília)."

\* The strings the two extractors search lines for with Python's "in"
Markers ==
    {NaturezaHeader, PrincipalHeader, SecundariasHeader, "NATUREZA JURÍDICA",
     "LOGRADOURO", "Emitido no dia", "CÓDIGO E DESCRIÇÃO", "NÚMERO DE INSCRIÇÃO",
     "DATA DE ABERTURA", "NOME EMPRESARIAL",
     "TÍTULO DO ESTABELECIMENTO (NOME DE FANTASIA)", "PORTE", "NÚMERO",
     "BAIRRO/DISTRITO", "MUNICÍPIO", "UF", "CEP", "TELEFONE",
     "DATA DA SITUAÇÃO CADASTRAL", "MOTIVO DE SITUAÇÃO CADASTRAL",
     "DATA DA SITUAÇÃO ESPECIAL", "MATRIZ", "FILIAL", "/"}

\* The markers that occur in a segment
Substrings(seg) ==
    CASE seg = "NÚMERO DE INSCRIÇÃO" -> {"NÚMERO DE INSCRIÇÃO", "NÚMERO"}
      [] seg = "38.139.407/0001-77" -> {"/"}
      [] seg = "MATRIZ" -> {"MATRIZ"}
      [] seg = "FILIAL" -> {"FILIAL"}
      [] seg = "TELEFONE" -> {"TELEFONE"}
      [] seg = SecundariasHeader -> {SecundariasHeader, "CÓDIGO E DESCRIÇÃO"}
      [] seg = "LOGRADOURO PUBLICO" -> {"LOGRADOURO"}
      [] seg = "LOGRADOURO" -> {"LOGRADOURO"}
      [] seg = NaturezaHeader -> {NaturezaHeader, "NATUREZA JURÍDICA", "CÓDIGO E DESCRIÇÃO"}
      [] seg = EmitidoLine -> {"Emitido no dia", "/"}
      [] seg = "NÚMERO" -> {"NÚMERO"}
      [] seg = "NOME EMPRESARIAL" -> {"NOME EMPRESARIAL"}
      [] seg = "CASA NÚMERO UM LTDA" -> {"NÚMERO"}
      [] seg = "UF" -> {"UF"}
      [] seg = "UFA LTDA" -> {"UF"}
      [] seg = PrincipalHeader -> {PrincipalHeader, "CÓDIGO E DESCRIÇÃO"}
      [] seg = "MOTIVO DE SITUAÇÃO CADASTRAL" -> {"MOTIVO DE SITUAÇÃO CADASTRAL"}
      [] seg = "DATA DA SITUAÇÃO ESPECIAL" -> {"DATA DA SITUAÇÃO ESPECIAL"}
      [] seg = "PORTE" -> {"PORTE"}
      [] seg = "CEP" -> {"CEP"}
      [] seg = "BAIRRO/DISTRITO" -> {"BAIRRO/DISTRITO", "/"}
      [] seg = "MUNICÍPIO" -> {"MUNICÍPIO"}
      [] seg = "DATA DA SITUAÇÃO CADASTRAL" -> {"DATA DA SITUAÇÃO CADASTRAL"}
      [] seg = "DATA DE ABERTURA" -> {"DATA DE ABERTURA"}
      [] seg = "TÍTULO DO ESTABELECIMENTO (NOME DE FANTASIA)" -> {"TÍTULO DO ESTABELECIMENTO (NOME DE FANTASIA)"}
      [] OTHER -> {}

\* len(seg) of each segment of the texts and of the labels
SegLen(seg) ==
    CASE seg = "NÚMERO DE INSCRIÇÃO" -> 19
      [] seg = "38.139.407/0001-77" -> 18
      [] seg = "MATRIZ" -> 6
      [] seg = "FILIAL" -> 6
      [] seg = "TELEFONE" -> 8
      [] seg = "********" -> 8
      [] seg = SecundariasHeader -> 56
      [] seg = "01.01-1" -> 7
      [] seg = "A" -> 1
      [] seg = "99.99-9" -> 7
      [] seg = "LOGRADOURO PUBLICO" -> 18
      [] seg = "LOGRADOURO" -> 10
      [] seg = NaturezaHeader -> 39
      [] seg = EmitidoLine -> 64
      [] seg = "02.02-2" -> 7
      [] seg = "B" -> 1
      [] seg = "Rua X" -> 5
      [] seg = "NÚMERO" -> 6
      [] seg = "12" -> 2
      [] seg = "34" -> 2
      [] seg = "COMPLEMENTO" -> 11
      [] seg = "NOME EMPRESARIAL" -> 16
      [] seg = "CASA NÚMERO UM LTDA" -> 19
      [] seg = "UF" -> 2
      [] seg = "MA" -> 2
      [] seg = "UFA LTDA" -> 8
      [] seg = "206-2" -> 5
      [] seg = "Sociedade" -> 9
      [] seg = "Limitada" -> 8
      [] seg = PrincipalHeader -> 51
      [] seg = "62.01-5" -> 7
      [] seg = "Desenvolvimento" -> 15
      [] seg = "sob encomenda" -> 13
      [] seg = "Em branco" -> 9
      [] seg = "Sociedade Limitada" -> 18
      [] seg = "****" -> 4
      [] seg = "MOTIVO DE SITUAÇÃO CADASTRAL" -> 28
      [] seg = "SITUAÇÃO ESPECIAL" -> 17
      [] seg = "DATA DA SITUAÇÃO ESPECIAL" -> 25
      [] seg = "PORTE" -> 5
      [] seg = "CEP" -> 3
      [] seg = "BAIRRO/DISTRITO" -> 15
      [] seg = "MUNICÍPIO" -> 9
      [] seg = "SITUAÇÃO CADASTRAL" -> 18
      [] seg = "DATA DA SITUAÇÃO CADASTRAL" -> 26
      [] seg = "DATA DE ABERTURA" -> 16
      [] seg = "TÍTULO DO ESTABELECIMENTO (NOME DE FANTASIA)" -> 44
      [] seg = "MOTIVO" -> 6

\* len(s): the segments and the separators between them
RECURSIVE len(_)
len(s) ==
    IF s = <<>> THEN 0
    ELSE IF Len(s) = 1 THEN SegLen(s[1])
    ELSE SegLen(s[1]) + 3 + len(Tail(s))

\* marker in s, for a marker that does not hold the separator
Has(s, marker) == \E k \in 1..Len(s) : marker \in Substrings(s[k])

\* re.search(r'(\d{2}/\d{2}/\d{4}) às (\d{2}:\d{2}:\d{2})', line), line 206
re_search_emissao(s) ==
    IF \E k \in 1..Len(s) : s[k] = EmitidoLine
    THEN [matched |-> TRUE, data |-> <<"03/11/2024">>, hora |-> <<"10:20:30">>]
    ELSE [matched |-> FALSE, data |-> <<>>, hora |-> <<>>]

\* The alphabet of raw lines
Alphabet ==
    {RawLine(FALSE, <<"NÚMERO DE INSCRIÇÃO">>),
     RawLine(FALSE, <<"38.139.407/0001-77">>),
     RawLine(FALSE, <<"MATRIZ">>),
     RawLine(TRUE,  <<"FILIAL">>),
     RawLine(FALSE, <<"TELEFONE">>),
     RawLine(FALSE, <<"********">>),
     RawLine(FALSE, <<SecundariasHeader>>),
     RawLine(FALSE, <<"01.01-1", "A">>),
     RawLine(FALSE, <<"99.99-9", "LOGRADOURO PUBLICO">>),
     RawLine(FALSE, <<"LOGRADOURO">>),
     RawLine(FALSE, <<NaturezaHeader>>),
     RawLine(FALSE, <<EmitidoLine>>),
     RawLine(TRUE,  <<>>)}

\* Texts given whole
Scenarios ==
    {<<RawLine(FALSE, <<SecundariasHeader>>),
       RawLine(FALSE, <<"01.01-1", "A">>),
       RawLine(FALSE, <<"02.02-2", "B">>),
       RawLine(FALSE, <<"LOGRADOURO">>),
       RawLine(FALSE, <<"Rua X">>)>>,
     <<RawLine(FALSE, <<"NÚMERO">>),
       RawLine(FALSE, <<"12">>),
       RawLine(FALSE, <<"NÚMERO">>),
       RawLine(FALSE, <<"34">>)>>,
     <<RawLine(FALSE, <<"NÚMERO">>),
       RawLine(FALSE, <<"COMPLEMENTO">>),
       RawLine(FALSE, <<"NÚMERO">>),
       RawLine(FALSE, <<"34">>)>>,
     <<RawLine(FALSE, <<"NOME EMPRESARIAL">>),
       RawLine(FALSE, <<"CASA NÚMERO UM LTDA">>),
       RawLine(FALSE, <<"NÚMERO">>),
       RawLine(FALSE, <<"12">>)>>,
     <<RawLine(FALSE, <<"NÚMERO DE INSCRIÇÃO">>),
       RawLine(FALSE, <<"38.139.407/0001-77">>),
       RawLine(FALSE, <<"NÚMERO">>),
       RawLine(FALSE, <<"12">>),
       RawLine(FALSE, <<"UF">>),
       RawLine(FALSE, <<"MA">>)>>,
     <<RawLine(FALSE, <<"NOME EMPRESARIAL">>),
       RawLine(FALSE, <<"UFA LTDA">>),
       RawLine(FALSE, <<"UF">>),
       RawLine(FALSE, <<"MA">>)>>,
     <<RawLine(FALSE, <<NaturezaHeader>>),
       RawLine(FALSE, <<"206-2", "Sociedade", "Limitada">>),
       RawLine(FALSE, <<PrincipalHeader>>),
       RawLine(FALSE, <<"62.01-5", "Desenvolvimento", "sob encomenda">>)>>,
     <<RawLine(FALSE, <<PrincipalHeader>>),
       RawLine(FALSE, <<"Em branco">>),
       RawLine(FALSE, <<NaturezaHeader>>),
       RawLine(TRUE, <<>>),
       RawLine(FALSE, <<"206-2", "Sociedade Limitada">>)>>,
     <<RawLine(FALSE, <<"TELEFONE">>),
       RawLine(FALSE, <<"****">>)>>,
     <<RawLine(FALSE, <<"MOTIVO DE SITUAÇÃO CADASTRAL">>),
       RawLine(FALSE, <<"****">>),
       RawLine(FALSE, <<"SITUAÇÃO ESPECIAL">>),
       RawLine(FALSE, <<"****">>),
       RawLine(FALSE, <<"DATA DA SITUAÇÃO ESPECIAL">>),
       RawLine(FALSE, <<"****">>)>>,
     <<RawLine(FALSE, <<"MOTIVO DE SITUAÇÃO CADASTRAL">>),
       RawLine(FALSE, <<"********">>),
       RawLine(FALSE, <<"SITUAÇÃO ESPECIAL">>),
       RawLine(FALSE, <<"********">>),
       RawLine(FALSE, <<"DATA DA SITUAÇÃO ESPECIAL">>),
       RawLine(FALSE, <<"********">>)>>}

\* The texts extract_from_text is applied to: text.split('\n') of each
Texts == UNION {[1..n -> Alphabet] : n \in 0..MaxLines} \cup Scenarios

\* line 123: lines = [line.strip() for line in text.split('\n') if line.strip()]
StrippedLines(text) ==
    SelectSeq([i \in 1..Len(text) |-> strip(text[i])], LAMBDA l : l # <<>>)

\* lines 126-150: the record as initialised, with time.strftime read at second t
InitialData(t) ==
    [cnpj |-> [numero |-> <<>>, tipo |-> <<>>, data_abertura |-> <<>>],
     empresa |-> [razao_social |-> <<>>, nome_fantasia |-> <<>>, porte |-> <<>>,
                  natureza_juridica |-> [codigo |-> <<>>, descricao |-> <<>>]],
     atividades |-> [principal |-> [codigo |-> <<>>, descricao |-> <<>>],
                     secundarias |-> <<>>],
     endereco |-> [logradouro |-> <<>>, numero |-> <<>>, complemento |-> <<>>,
                   cep |-> <<>>, bairro |-> <<>>, municipio |-> <<>>, uf |-> <<>>],
     contato |-> [email |-> <<>>, telefone |-> <<>>],
     situacao |-> [cadastral |-> <<>>, data_situacao |-> <<>>, motivo |-> <<>>,
                   situacao_especial |-> <<>>, data_situacao_especial |-> <<>>],
     comprovante |-> [data_emissao |-> <<>>, hora_emissao |-> <<>>],
     metadados |-> [timestamp |-> t, sucesso |-> TRUE]]

\* lines 153-169
field_map ==
    (<<"NÚMERO DE INSCRIÇÃO">> :> <<"cnpj", "numero">>) @@
    (<<"DATA DE ABERTURA">> :> <<"cnpj", "data_abertura">>) @@
    (<<"NOME EMPRESARIAL">> :> <<"empresa", "razao_social">>) @@
    (<<"TÍTULO DO ESTABELECIMENTO (NOME DE FANTASIA)">> :> <<"empresa", "nome_fantasia">>) @@
    (<<"PORTE">> :> <<"empresa", "porte">>) @@
    (<<"LOGRADOURO">> :> <<"endereco", "logradouro">>) @@
    (<<"NÚMERO">> :> <<"endereco", "numero">>) @@
    (<<"COMPLEMENTO">> :> <<"endereco", "complemento">>) @@
    (<<"CEP">> :> <<"endereco", "cep">>) @@
    (<<"BAIRRO/DISTRITO">> :> <<"endereco", "bairro">>) @@
    (<<"MUNICÍPIO">> :> <<"endereco", "municipio">>) @@
    (<<"UF">> :> <<"endereco", "uf">>) @@
    (<<"TELEFONE">> :> <<"contato", "telefone">>) @@
    (<<"SITUAÇÃO CADASTRAL">> :> <<"situacao", "cadastral">>) @@
    (<<"DATA DA SITUAÇÃO CADASTRAL">> :> <<"situacao", "data_situacao">>)

\* line 173: next_line = lines[i + 1] if i + 1 < len(lines) else ""
next_line_skipping_one(lines, i) == IF i + 2 <= Len(lines) THEN lines[i + 2] ELSE <<>>

next_line(lines, i) == IF i + 1 <= Len(lines) THEN lines[i + 1] ELSE <<>>

\* codigo, desc = s.split(" - ", 1), as the dictionary built from them
split_first_code_only(s) == [codigo |-> <<Head(s)>>]

split_on_last(s) == [codigo |-> SubSeq(s, 1, Len(s) - 1), descricao |-> <<s[Len(s)]>>]

split_first(s) == [codigo |-> <<Head(s)>>, descricao |-> Tail(s)]

\* lines 198-204: the secondary activities that follow the header, from line j on
RECURSIVE secundarias_from(_, _)
secundarias_from(lines, j) ==
    IF j <= Len(lines) /\ Len(lines[j]) >= 2
    THEN IF \E stop \in {"NATUREZA JURÍDICA", "LOGRADOURO"} : Has(lines[j], stop)
         THEN <<>>
         ELSE <<split_first(lines[j])>> \o secundarias_from(lines, j + 1)
    ELSE <<>>

is_value_any_line(nl) == nl # <<>>

\* line 178: next_line and next_line not in field_map
is_value(nl) == nl # <<>> /\ nl \notin DOMAIN field_map

\* lines 172-209: the body of "for i, line in enumerate(lines)" for line i
scan_line(data, lines, i) ==
    LET line == lines[i]
        nl   == next_line(lines, i)
    IN  IF line \in DOMAIN field_map
        THEN LET section == field_map[line][1]
                 field   == field_map[line][2]
             IN  IF is_value(nl)
                 THEN IF section = "endereco" /\ field = "numero"
                         /\ data.endereco.numero # <<>>
                      THEN data
                      ELSE [data EXCEPT ![section][field] = nl]
                 ELSE data
        ELSE IF line = <<"MATRIZ">> THEN [data EXCEPT !.cnpj.tipo = <<"MATRIZ">>]
        ELSE IF line = <<"FILIAL">> THEN [data EXCEPT !.cnpj.tipo = <<"FILIAL">>]
        ELSE IF Has(line, NaturezaHeader) /\ nl # <<>>
        THEN IF Len(nl) >= 2
             THEN [data EXCEPT !.empresa.natureza_juridica = split_first(nl)]
             ELSE data
        ELSE IF Has(line, PrincipalHeader) /\ nl # <<>>
        THEN IF Len(nl) >= 2
             THEN [data EXCEPT !.atividades.principal = split_first(nl)]
             ELSE data
        ELSE IF Has(line, SecundariasHeader)
        THEN [data EXCEPT !.atividades.secundarias = @ \o secundarias_from(lines, i + 1)]
        ELSE IF Has(line, "Emitido no dia")
        THEN LET match == re_search_emissao(line)
             IN  IF match.matched
                 THEN [data EXCEPT !.comprovante.data_emissao = match.data,
                                   !.comprovante.hora_emissao = match.hora]
                 ELSE data
        ELSE data

RECURSIVE scan(_, _, _)
scan(data, lines, i) ==
    IF i > Len(lines) THEN data ELSE scan(scan_line(data, lines, i), lines, i + 1)

\* extract_from_text(text) called when time.strftime reads second t
extract_from_text(text, t) == scan(InitialData(t), StrippedLines(text), 1)

-----------------------------------------------------------------------------
(* CNPJConsultor._processar_dados of src/legacy/main.py, lines 285-430     *)

\* lines 289-310: the record as initialised
LegacyInitialData ==
    [cnpj |-> [numero |-> <<>>, tipo |-> <<>>, data_abertura |-> <<>>],
     empresa |-> [razao_social |-> <<>>, nome_fantasia |-> <<>>, porte |-> <<>>,
                  natureza_juridica |-> [codigo |-> <<>>, descricao |-> <<>>]],
     atividades |-> [principal |-> [codigo |-> <<>>, descricao |-> <<>>],
                     secundarias |-> <<>>],
     endereco |-> [logradouro |-> <<>>, numero |-> <<>>, complemento |-> <<>>,
                   cep |-> <<>>, bairro |-> <<>>, municipio |-> <<>>, uf |-> <<>>],
     contato |-> [email |-> <<>>, telefone |-> <<>>],
     situacao |-> [cadastral |-> <<>>, data_situacao |-> <<>>, motivo |-> <<>>,
                   situacao_especial |-> <<>>, data_situacao_especial |-> <<>>],
     comprovante |-> [data_emissao |-> <<>>, hora_emissao |-> <<>>]]

\* lines 316-320: the next line that is not blank, stripped, or ""
RECURSIVE proxima_linha_from(_, _)
proxima_linha_from(linhas, j) ==
    IF j > Len(linhas) THEN <<>>
    ELSE IF strip(linhas[j]) = <<>> THEN proxima_linha_from(linhas, j + 1)
    ELSE strip(linhas[j])

proxima_linha(linhas, idx) == proxima_linha_from(linhas, idx + 1)

\* lines 361-375: the while loop from raw line j on
RECURSIVE legacy_secundarias_from(_, _)
legacy_secundarias_from(linhas, j) ==
    IF j > Len(linhas) THEN <<>>
    ELSE LET linha_atividade == strip(linhas[j])
         IN  IF linha_atividade = <<>> THEN legacy_secundarias_from(linhas, j + 1)
             ELSE IF \E campo \in {"CÓDIGO E DESCRIÇÃO", "LOGRADOURO", "NATUREZA JURÍDICA"} :
                        Has(linha_atividade, campo)
             THEN <<>>
             ELSE IF Len(linha_atividade) >= 2
             THEN <<split_first(linha_atividade)>> \o legacy_secundarias_from(linhas, j + 1)
             ELSE legacy_secundarias_from(linhas, j + 1)

\* lines 325-329: the kind is looked for in the raw line two after the label
legacy_tipo(dados, linhas, i) ==
    IF i + 2 <= Len(linhas) /\ Has(linhas[i + 2].segs, "MATRIZ") THEN <<"MATRIZ">>
    ELSE IF i + 2 <= Len(linhas) /\ Has(linhas[i + 2].segs, "FILIAL") THEN <<"FILIAL">>
    ELSE dados.cnpj.tipo

\* x and x != "********"
NotMasked(x) == x # <<>> /\ x # <<"********">>

\* lines 313-428: the body of "for i, linha in enumerate(linhas)" for line i
legacy_line(dados, linhas, i) ==
    LET linha == strip(linhas[i])
        prox  == proxima_linha(linhas, i)
    IN  IF Has(linha, "NÚMERO DE INSCRIÇÃO")
        THEN [dados EXCEPT !.cnpj.numero = prox, !.cnpj.tipo = legacy_tipo(dados, linhas, i)]
        ELSE IF Has(linha, "DATA DE ABERTURA")
        THEN [dados EXCEPT !.cnpj.data_abertura = prox]
        ELSE IF Has(linha, "NOME EMPRESARIAL")
        THEN [dados EXCEPT !.empresa.razao_social = prox]
        ELSE IF Has(linha, "TÍTULO DO ESTABELECIMENTO (NOME DE FANTASIA)")
        THEN [dados EXCEPT !.empresa.nome_fantasia = prox]
        ELSE IF Has(linha, "PORTE") /\ len(linha) < 20
        THEN [dados EXCEPT !.empresa.porte = prox]
        ELSE IF Has(linha, NaturezaHeader)
        THEN IF Len(prox) >= 2
             THEN [dados EXCEPT !.empresa.natureza_juridica = split_first(prox)]
             ELSE dados
        ELSE IF Has(linha, PrincipalHeader)
        THEN IF Len(prox) >= 2
             THEN [dados EXCEPT !.atividades.principal = split_first(prox)]
             ELSE dados
        ELSE IF Has(linha, SecundariasHeader)
        THEN [dados EXCEPT !.atividades.secundarias =
                               @ \o legacy_secundarias_from(linhas, i + 1)]
        ELSE IF Has(linha, "LOGRADOURO")
        THEN [dados EXCEPT !.endereco.logradouro = prox]
        ELSE IF Has(linha, "NÚMERO") /\ dados.endereco.numero = <<>>
        THEN [dados EXCEPT !.endereco.numero = prox]
        ELSE IF Has(linha, "BAIRRO/DISTRITO")
        THEN [dados EXCEPT !.endereco.bairro = prox]
        ELSE IF Has(linha, "MUNICÍPIO")
        THEN [dados EXCEPT !.endereco.municipio = prox]
        ELSE IF Has(linha, "UF") /\ len(linha) < 10
        THEN [dados EXCEPT !.endereco.uf = prox]
        ELSE IF Has(linha, "CEP")
        THEN [dados EXCEPT !.endereco.cep = prox]
        ELSE IF Has(linha, "TELEFONE")
        THEN IF NotMasked(prox) THEN [dados EXCEPT !.contato.telefone = prox] ELSE dados
        ELSE IF linha = <<"SITUAÇÃO CADASTRAL">>
        THEN IF prox # <<>> /\ prox \notin {<<"DATA DA SITUAÇÃO CADASTRAL">>, <<"MOTIVO">>}
             THEN [dados EXCEPT !.situacao.cadastral = prox]
             ELSE dados
        ELSE IF Has(linha, "DATA DA SITUAÇÃO CADASTRAL")
        THEN IF prox # <<>> /\ Has(prox, "/")
             THEN [dados EXCEPT !.situacao.data_situacao = prox]
             ELSE dados
        ELSE IF Has(linha, "MOTIVO DE SITUAÇÃO CADASTRAL")
        THEN IF NotMasked(prox) THEN [dados EXCEPT !.situacao.motivo = prox] ELSE dados
        ELSE IF linha = <<"SITUAÇÃO ESPECIAL">>
        THEN IF NotMasked(prox) THEN [dados EXCEPT !.situacao.situacao_especial = prox]
             ELSE dados
        ELSE IF Has(linha, "DATA DA SITUAÇÃO ESPECIAL")
        THEN IF NotMasked(prox) /\ Has(prox, "/")
             THEN [dados EXCEPT !.situacao.data_situacao_especial = prox]
             ELSE dados
        ELSE IF Has(linha, "Emitido no dia")
        THEN LET match == re_search_emissao(linha)
             IN  IF match.matched
                 THEN [dados EXCEPT !.comprovante.data_emissao = match.data,
                                    !.comprovante.hora_emissao = match.hora]
                 ELSE dados
        ELSE dados

RECURSIVE legacy_scan(_, _, _)
legacy_scan(dados, linhas, i) ==
    IF i > Len(linhas) THEN dados
    ELSE legacy_scan(legacy_line(dados, linhas, i), linhas, i + 1)

\* _processar_dados(texto), with linhas = texto.split('\n')
_processar_dados(linhas) == legacy_scan(LegacyInitialData, linhas, 1)

-----------------------------------------------------------------------------
(* The extractors applied to a text: extract_from_text twice, at two       *)
(* readings of the wall clock, and the legacy _processar_dados once        *)

ExtractorInit ==
    /\ ex_pc = "first"
    /\ ex_text \in Texts
    /\ ex_time = 0
    /\ ex_first = NotCalled /\ ex_second = NotCalled /\ ex_legacy = NotCalled
    /\ ClientParked /\ CoordinatorParked /\ SeleniumParked /\ ConcurrentParked /\ LegacyParked

ExtractFirst ==
    /\ ex_pc = "first"
    /\ ex_first' = extract_from_text(ex_text, ex_time)
    /\ ex_pc' = "between"
    /\ UNCHANGED <<ex_text, ex_time, ex_second, ex_legacy>>
    /\ UNCHANGED NotExtractor

\* d seconds pass between the two calls
Tick(d) ==
    /\ ex_pc = "between"
    /\ ex_time' = ex_time + d
    /\ ex_pc' = "second"
    /\ UNCHANGED <<ex_text, ex_first, ex_second, ex_legacy>>
    /\ UNCHANGED NotExtractor

ExtractSecond ==
    /\ ex_pc = "second"
    /\ ex_second' = extract_from_text(ex_text, ex_time)
    /\ ex_pc' = "legacy"
    /\ UNCHANGED <<ex_text, ex_time, ex_first, ex_legacy>>
    /\ UNCHANGED NotExtractor

ProcessarDados ==
    /\ ex_pc = "legacy"
    /\ ex_legacy' = _processar_dados(ex_text)
    /\ ex_pc' = "done"
    /\ UNCHANGED <<ex_text, ex_time, ex_first, ex_second>>
    /\ UNCHANGED NotExtractor

ExtractorNext ==
    \/ ExtractFirst
    \/ \E d \in {0, 1} : Tick(d)
    \/ ExtractSecond
    \/ ProcessarDados

ExtractorSpec == ExtractorInit /\ [][ExtractorNext]_vars

-----------------------------------------------------------------------------
(* Properties of the extractors *)

\* extract_from_text has returned its first record
Extracted == ex_pc \notin {"parked", "first"}

\* The trimmed non-empty lines of the text
TextLines == StrippedLines(ex_text)

Occurs(s) == \E i \in 1..Len(TextLines) : TextLines[i] = s

OccursMarker(marker) == \E i \in 1..Len(TextLines) : Has(TextLines[i], marker)

CodeAndDescription == {"codigo", "descricao"}

\* The record has the eight sections with every field of the initial record
CompleteShape(d) ==
    /\ DOMAIN d = DOMAIN InitialData(0)
    /\ \A s \in DOMAIN InitialData(0) : DOMAIN d[s] = DOMAIN InitialData(0)[s]
    /\ DOMAIN d.empresa.natureza_juridica = CodeAndDescription
    /\ DOMAIN d.atividades.principal = CodeAndDescription
    /\ \A k \in 1..Len(d.atividades.secundarias) :
          DOMAIN d.atividades.secundarias[k] = CodeAndDescription

\* Every field whose label, token or header is not in the text is empty
UnlocatedAreZero(d) ==
    /\ \A label \in DOMAIN field_map :
          ~Occurs(label) => d[field_map[label][1]][field_map[label][2]] = <<>>
    /\ d.contato.email = <<>> /\ d.situacao.motivo = <<>>
    /\ d.situacao.situacao_especial = <<>> /\ d.situacao.data_situacao_especial = <<>>
    /\ (~Occurs(<<"MATRIZ">>) /\ ~Occurs(<<"FILIAL">>)) => d.cnpj.tipo = <<>>
    /\ ~OccursMarker(NaturezaHeader) =>
          d.empresa.natureza_juridica = [codigo |-> <<>>, descricao |-> <<>>]
    /\ ~OccursMarker(PrincipalHeader) =>
          d.atividades.principal = [codigo |-> <<>>, descricao |-> <<>>]
    /\ ~OccursMarker(SecundariasHeader) => d.atividades.secundarias = <<>>
    /\ ~OccursMarker("Emitido no dia") =>
          d.comprovante = [data_emissao |-> <<>>, hora_emissao |-> <<>>]

\* C16: for every text extract_from_text returns a record with all eight sections
\* and every field present, and every field that was not located is empty.
C16_TotalAndShapePreserving ==
    Extracted => (CompleteShape(ex_first) /\ UnlocatedAreZero(ex_first))

\* A text whose only line is a label: the record is complete and the field empty
C16_Witness ==
    /\ Extracted
    /\ ex_text = <<RawLine(FALSE, <<"TELEFONE">>)>>
    /\ ex_first.contato.telefone = <<>>

IsAsterisks(s) == s = <<"********">>

\* C17: none of contato.telefone, situacao.motivo, situacao.situacao_especial and
\* situacao.data_situacao_especial of a returned record is a run of asterisks.
C17_MaskedStaysEmpty ==
    Extracted =>
       /\ ~IsAsterisks(ex_first.contato.telefone)
       /\ ~IsAsterisks(ex_first.situacao.motivo)
       /\ ~IsAsterisks(ex_first.situacao.situacao_especial)
       /\ ~IsAsterisks(ex_first.situacao.data_situacao_especial)

SecundariasBoundary == {"NATUREZA JURÍDICA", "LOGRADOURO"}

\* The line has the shape "<code> - <description>" and holds no boundary marker
IsActivity(l) == Len(l) >= 2 /\ \A m \in SecundariasBoundary : ~Has(l, m)

HeaderLines == {i \in 1..Len(TextLines) : Has(TextLines[i], SecundariasHeader)}

\* The maximal run of activity lines that immediately follow line i
MaximalRun(i) ==
    LET n == CHOOSE k \in 0..(Len(TextLines) - i) :
                /\ \A j \in 1..k : IsActivity(TextLines[i + j])
                /\ i + k + 1 <= Len(TextLines) => ~IsActivity(TextLines[i + k + 1])
    IN  [j \in 1..n |-> split_first(TextLines[i + j])]

\* extract_from_text alone: with one header line in the text, the secondary
\* activities are the maximal run of activity lines after it.
SecundariasOfExtractFromText ==
    (Extracted /\ Cardinality(HeaderLines) = 1) =>
       \A i \in HeaderLines : ex_first.atividades.secundarias = MaximalRun(i)

\* C18: with one secondary-activities header line in the text, the secondary
\* activities of the record are exactly the maximal run of activity lines that
\* immediately follow it, in order and with duplicates, both in extract_from_text
\* and in the legacy _processar_dados.
C18_SecundariasIsMaximalRun ==
    (ex_pc = "done" /\ Cardinality(HeaderLines) = 1) =>
       \A i \in HeaderLines :
          /\ ex_first.atividades.secundarias = MaximalRun(i)
          /\ ex_legacy.atividades.secundarias = MaximalRun(i)

\* C19: two calls of extract_from_text on the same text return the same record.
C19_Deterministic ==
    ex_pc \in {"legacy", "done"} => ex_first = ex_second

\* The text of the identification scenario
IdentificationLines ==
    <<(<<"NÚMERO DE INSCRIÇÃO">>), (<<"38.139.407/0001-77">>), (<<"MATRIZ">>)>>

\* C20: the lines NÚMERO DE INSCRIÇÃO, 38.139.407/0001-77, MATRIZ give numero
\* 38.139.407/0001-77 and tipo MATRIZ, and tipo of every record is MATRIZ, FILIAL
\* or empty (the kinds MATRIX, BRANCH and unknown).
C20_Identification ==
    Extracted =>
       /\ ex_first.cnpj.tipo \in {<<"MATRIZ">>, <<"FILIAL">>, <<>>}
       /\ TextLines = IdentificationLines =>
             /\ ex_first.cnpj.numero = <<"38.139.407/0001-77">>
             /\ ex_first.cnpj.tipo = <<"MATRIZ">>

C20_Witness ==
    /\ Extracted
    /\ TextLines = IdentificationLines
    /\ ex_first.cnpj.numero = <<"38.139.407/0001-77">>
    /\ ex_first.cnpj.tipo = <<"MATRIZ">>

\* C21: the record extract_from_text returns does not carry sucesso = True of its
\* own; success is the coordinator's decision.
C21_ExtractorLeavesSuccessUnset ==
    Extracted => ex_first.metadados.sucesso # TRUE

\* C22: a record with sucesso = TRUE is returned, and cached, only when the page of
\* that attempt showed no error banner.
C22_NoSuccessOnErrorBanner ==
    /\ (pc = "done" /\ ret.kind = "returned" /\ ret.value.kind = "record"
          /\ Sucesso(ret.value))
         => ret.value.texto # "erro_banner"
    /\ \A k \in CacheKeys :
         (cache[k].kind = "record" /\ Sucesso(cache[k])) => cache[k].texto # "erro_banner"

-----------------------------------------------------------------------------
(* The order of the steps of an attempt *)

\* _perform_consultation, lines 290-308: _setup_browser (AcquireSession), goto,
\* _solve_captcha (SolveChallenge), _submit_query (SubmitQuery and AwaitResultPage:
\* the click, then the wait for the result page), extract_from_text (Extract)
StageOrder == <<"setup", "goto", "captcha", "submit", "extract">>

Upto(n) == SubSeq(StageOrder, 1, n)

\* the attempt has run its finally clause
Released == stats.stages # <<>> /\ stats.stages[Len(stats.stages)] = "cleanup"

\* the steps the attempt passed, the cleanup left out
PassedStages == IF Released THEN SubSeq(stats.stages, 1, Len(stats.stages) - 1)
                ELSE stats.stages

\* C24: a step of an attempt is entered only when every earlier step of the same
\* attempt returned normally, in the order setup, goto, captcha (token obtained),
\* submit (result page detected), extract; the cache is written only after extract;
\* a failed step is followed by the cleanup and then by a new setup, at most
\* MaxRetries attempts in all, or by the error response, never by a later step.
C24_StageOrder ==
    /\ pc = "setup" => (exc = None /\ stats.stages = <<>>
                          /\ stats.attempts = stats.sleeps /\ stats.attempts < MaxRetries)
    /\ pc \in {"launch", "new_context", "new_page", "route"} =>
          (exc = None /\ stats.stages = <<>> /\ stats.attempts = stats.sleeps + 1)
    /\ pc = "goto" => (PassedStages = Upto(1) /\ ~Released /\ exc = None)
    /\ pc \in {"captcha", "get_attribute", "solve", "evaluate", "sleep"} =>
          (PassedStages = Upto(2) /\ ~Released /\ exc = None)
    /\ pc \in {"submit", "click", "wait_url", "wait_text"} =>
          (PassedStages = Upto(3) /\ ~Released /\ exc = None)
    /\ pc = "extract" => (PassedStages = Upto(4) /\ ~Released /\ exc = None)
    /\ pc \in {"screenshot", "content"} =>
          (PassedStages = Upto(2) /\ ~Released /\ exc # None /\ result = None)
    /\ pc \in {"cleanup", "stop"} =>
          /\ ~Released
          /\ \E n \in 0..5 : PassedStages = Upto(n) /\ (n = 5 <=> exc = None)
          /\ (result # None) <=> (PassedStages = Upto(5))
    /\ pc = "after" =>
          /\ Released
          /\ \E n \in 0..5 : PassedStages = Upto(n)
          /\ (result # None) => (PassedStages = Upto(5) /\ exc = None)
    /\ saved # "not_called" => (PassedStages = Upto(5) /\ Released /\ pc = "done")
    /\ (pc = "done" /\ exc # None) =>
          /\ Released
          /\ ret.kind = "returned" /\ ret.value.kind = "erro"
          /\ stats.attempts = MaxRetries
    /\ stats.attempts <= MaxRetries

\* the second attempt of a call passed every step after the first one failed, and
\* its record was written to the cache
C24_Witness ==
    /\ pc = "done" /\ ReturnedSuccess /\ saved = "ok"
    /\ stats.attempts = 2 /\ stats.failed = 1
    /\ PassedStages = StageOrder /\ Released

-----------------------------------------------------------------------------
(* The backoff between attempts *)

\* The clock advances at asyncio.sleep(10) of line 282, at asyncio.sleep(2) of line
\* 354 and while solve_hcaptcha runs: the time a call has taken is at least that of
\* its backoff sleeps, and that of the sleep of line 354 once the attempt is past it
SleptSoFar ==
    now - callTime >= BackoffSeconds * stats.sleeps
                      + (IF Len(PassedStages) >= 3 THEN TokenSettleSeconds ELSE 0)

\* one sleep after each failed attempt but the last, none after a success: between
\* the sleep and the next _setup_browser the call has slept once per attempt begun,
\* anywhere else once less
OneSleepBetweenAttempts ==
    /\ SleptSoFar
    /\ stats.sleeps = IF stats.attempts = 0 THEN 0
                      ELSE IF pc = "setup" THEN stats.attempts
                      ELSE stats.attempts - 1
    /\ stats.sleeps <= MaxRetries - 1

\* C26: exactly one sleep of 10 s between two consecutive attempts, taken after the
\* failed attempt's session has been released and before the next one is acquired;
\* none after the 3rd attempt or after a successful one.
C26_BackoffAfterRelease ==
    /\ OneSleepBetweenAttempts
    /\ (pc = "setup" /\ stats.sleeps > 0) => (~browserOpen /\ ~driverRunning)

\* the current attempt failed in _solve_captcha or in _submit_query (the click or
\* the wait for the result page) and its finally clause has not run yet
FailedWithPageOpen ==
    /\ pc = "cleanup" /\ exc # None
    /\ PassedStages \in {Upto(2), Upto(3)}
    /\ page # "None" /\ pageLive

\* a screenshot and an HTML dump of one error kind are among the files written
BothArtifacts == \E e \in debug : {<<e[1], "png">>, <<e[1], "html">>} \subseteq debug

\* C32: when an attempt has failed in the challenge stage, in the submission or in
\* the wait for the result page while a page is open, a screenshot and an HTML dump
\* have been saved before the attempt's session is released.
C32_DebugArtifactsOnFailure == FailedWithPageOpen => BothArtifacts

\* The part the code provides: artifacts are written by the challenge stage only
ArtifactsOnlyFromCaptcha ==
    /\ \A e \in debug : e[1] = "captcha_error"
    /\ (debug # {} /\ pc \in {"content", "cleanup", "stop", "after"}) =>
          (exc # None /\ PassedStages = Upto(2))

\* the record of a result page on which no field was recognised
Partial(r) == r.kind = "record" /\ r.texto = "sem_campos"

\* C34: extracting a page text without any recognised field does not raise; when
\* the attempt ends with that record, consultar returns it from that attempt, with
\* metadados.sucesso true, without a further attempt; with use_cache it writes it to
\* the cache, and once written the entry is a hit until 24h after its timestamp.
\* (A write that fails is swallowed by _save_cache; the record is returned anyway.)
C34_IncompleteIsNotFailure ==
    /\ (pc \in {"cleanup", "stop"} /\ Partial(result)) =>
          (exc = None /\ PassedStages = StageOrder)
    /\ (pc = "after" /\ Partial(result)) => exc = None
    /\ (pc = "done" /\ Partial(result)) =>
          /\ ret = Returned(result)
          /\ Sucesso(ret.value)
          /\ PassedStages = StageOrder
          /\ stats.failed = stats.attempts - 1 /\ stats.sleeps = stats.attempts - 1
          /\ use_cache <=> saved # "not_called"
          /\ saved = "ok" =>
                /\ cache[cnpj_clean] = result
                /\ \A d \in {0, 1, CacheTTL - 1} :
                      _get_cache(cache, cnpj_clean, result.timestamp + d) = result
                /\ _get_cache(cache, cnpj_clean, result.timestamp + CacheTTL) = None

\* The first attempt failed, the second read a page without fields: its record was
\* returned and cached
C34_Witness ==
    /\ pc = "done" /\ Partial(result) /\ ret = Returned(result)
    /\ use_cache /\ saved = "ok" /\ cache[cnpj_clean] = result
    /\ stats.attempts = 2 /\ stats.failed = 1

\* consultar returned the record of an attempt of this call
ReturnedFromAttempt == pc = "done" /\ result.kind = "record" /\ ret = Returned(result)

\* What lines 268-286 give by themselves: the call returns from the first attempt
\* that ends without an exception, after as many sleeps as attempts failed
StopsAtFirstSuccess ==
    /\ (pc = "after" /\ exc = None) => result.kind = "record"
    /\ ReturnedFromAttempt =>
          /\ stats.attempts \in 1..MaxRetries
          /\ stats.failed = stats.attempts - 1
          /\ stats.sleeps = stats.attempts - 1
          /\ PassedStages = StageOrder /\ Released

\* C37: during and after consultar(id, use_cache=False) the cache entries are those
\* the call found, _get_cache and _save_cache are not called, and for a valid id
\* the call ends only after at least one attempt of the pipeline, also when a fresh
\* entry for the id exists.
C37_NoCacheWithoutFlag ==
    (pc # "idle" /\ ~use_cache) =>
       /\ cache = cache0
       /\ cached = NotCalled
       /\ saved = "not_called"
       /\ pc # "check_cache"
       /\ (Done /\ Normalizes) =>
             /\ stats.attempts >= 1
             /\ ReturnedSuccess => (ret = Returned(result) /\ result.timestamp >= callTime)

\* A fresh entry existed; the call ran the pipeline and returned the new record,
\* and the entry is still the old one
C37_Witness ==
    /\ Done /\ ~use_cache /\ ReturnedSuccess
    /\ _get_cache(cache0, cnpj_clean, callTime) # None
    /\ stats.attempts = 2
    /\ cache = cache0 /\ ret.value # cache[cnpj_clean]

-----------------------------------------------------------------------------
(* The Selenium client: CNPJConsulta.consultar_cnpj, src/cnpj_consulta.py *)

\* consultar_cnpj calls made on one object in one behaviour
MaxSelCalls == 2

\* an argument that is not a str
NotAStr == <<"<None>">>

SelInputs == {Plain, Formatted, Thirteen, <<>>, NotAStr}

\* ''.join(filter(str.isdigit, cnpj)), line 125; the digits of the inputs above are
\* all ASCII.  Iterating over an argument that is not a str raises TypeError.
filter_isdigit(s) ==
    IF s = NotAStr THEN Raised("TypeError") ELSE Returned(SelectChars(s, UnicodeDigits))

\* the dict built by _extrair_dados_resultado, lines 227-232
ResultDict(id) == [kind |-> "dict", url_resultado |-> ResultUrl(id)]

\* the call begins, line 120: if not self.driver: self.setup_driver()
ConsultarCnpj(s) ==
    /\ UNCHANGED NotSelenium
    /\ sel_pc \in {"idle", "done"}
    /\ sel_calls < MaxSelCalls
    /\ sel_calls' = sel_calls + 1
    /\ sel_cnpj' = s
    /\ sel_ret' = NotCalled
    /\ sel_pc' = IF driver = "None" THEN "setup_driver" ELSE "validate"
    /\ UNCHANGED <<driver, sel_log>>

SetupDriverOutcomes == {"ok", "chrome_raises", "set_window_size_raises"}

\* setup_driver, lines 38-108, called at line 121 outside the try of consultar_cnpj:
\* webdriver.Chrome may raise before self.driver is assigned, set_window_size after;
\* the handler logs, tries the manual installation, and raises again
SetupDriver(o) ==
    /\ UNCHANGED NotSelenium
    /\ sel_pc = "setup_driver"
    /\ driver' = IF o = "chrome_raises" THEN "None" ELSE "driver"
    /\ IF o = "ok"
       THEN sel_pc' = "validate" /\ sel_log' = "driver_ok" /\ UNCHANGED sel_ret
       ELSE sel_pc' = "done" /\ sel_log' = o /\ sel_ret' = Raised("Exception")
    /\ UNCHANGED <<sel_cnpj, sel_calls>>

\* except Exception as e, lines 158-160: log the error, return None
SelHandler(e) ==
    /\ sel_pc' = "done"
    /\ sel_log' = e
    /\ sel_ret' = Returned(None)

\* lines 123-128: strip, check the length
Validate ==
    /\ UNCHANGED NotSelenium
    /\ sel_pc = "validate"
    /\ LET cnpj_limpo == filter_isdigit(sel_cnpj)
       IN  IF cnpj_limpo.kind = "raised" THEN SelHandler("TypeError")
           ELSE IF Len(cnpj_limpo.value) # 14 THEN SelHandler("ValueError")
           ELSE sel_pc' = "get" /\ UNCHANGED <<sel_ret, sel_log>>
    /\ UNCHANGED <<driver, sel_cnpj, sel_calls>>

\* lines 132-144: driver.get(url), the wait for the body, the sleep
Load(o) ==
    /\ UNCHANGED NotSelenium
    /\ sel_pc = "get"
    /\ IF o = "ok"
       THEN sel_pc' = "captcha" /\ UNCHANGED <<sel_ret, sel_log>>
       ELSE SelHandler(o)
    /\ UNCHANGED <<driver, sel_cnpj, sel_calls>>

\* _resolver_captcha, lines 162-192: TimeoutException and NoSuchElementException are
\* swallowed there with a warning, any other exception reaches the handler of
\* consultar_cnpj
ResolverCaptcha(o) ==
    /\ UNCHANGED NotSelenium
    /\ sel_pc = "captcha"
    /\ IF o \in {"no_captcha", "clicked", "timeout_swallowed"}
       THEN sel_pc' = "click" /\ sel_log' = o /\ UNCHANGED sel_ret
       ELSE SelHandler(o)
    /\ UNCHANGED <<driver, sel_cnpj, sel_calls>>

\* _clicar_consultar, lines 194-211: the TimeoutException is logged and raised again
ClicarConsultar(o) ==
    /\ UNCHANGED NotSelenium
    /\ sel_pc = "click"
    /\ IF o = "ok"
       THEN sel_pc' = "extract" /\ sel_log' = "clicked_consultar" /\ UNCHANGED sel_ret
       ELSE SelHandler(o)
    /\ UNCHANGED <<driver, sel_cnpj, sel_calls>>

\* _extrair_dados_resultado, lines 213-238, and lines 153-156: the dict, or None when
\* reading the page raised; consultar_cnpj logs success and returns either
ExtrairDados(o) ==
    /\ UNCHANGED NotSelenium
    /\ sel_pc = "extract"
    /\ sel_pc' = "done"
    /\ sel_log' = "Consulta realizada com sucesso"
    /\ sel_ret' = IF o = "ok" THEN Returned(ResultDict(filter_isdigit(sel_cnpj).value))
                  ELSE Returned(None)
    /\ UNCHANGED <<driver, sel_cnpj, sel_calls>>

SeleniumInit ==
    /\ SeleniumParked
    /\ CoordinatorParked /\ ClientParked /\ ExtractorParked /\ ConcurrentParked /\ LegacyParked

SeleniumNext ==
    \/ \E s \in SelInputs : ConsultarCnpj(s)
    \/ \E o \in SetupDriverOutcomes : SetupDriver(o)
    \/ Validate
    \/ \E o \in {"ok", "get_raises", "body_timeout"} : Load(o)
    \/ \E o \in {"no_captcha", "clicked", "timeout_swallowed", "click_intercepted"} :
          ResolverCaptcha(o)
    \/ \E o \in {"ok", "timeout", "click_raises"} : ClicarConsultar(o)
    \/ \E o \in {"ok", "raises"} : ExtrairDados(o)

SeleniumSpec == SeleniumInit /\ [][SeleniumNext]_vars

\* C25: consultar_cnpj returns a dict on success and None on any error (an
\* identifier without 14 digits, a driver that cannot be set up, a page-load or
\* click timeout) and never raises.
C25_DictOrNoneNeverRaises ==
    sel_pc = "done" =>
        /\ sel_ret.kind = "returned"
        /\ sel_ret.value.kind \in {"dict", "None"}
        /\ sel_ret.value.kind = "dict" =>
              (driver = "driver" /\ Len(SelectChars(sel_cnpj, UnicodeDigits)) = 14)

-----------------------------------------------------------------------------
(* Two consultar calls interleaved on one CNPJConsultorV2 object.  A call is   *)
(* suspended at each await; between two awaits it runs alone.  Each call makes *)
(* one attempt, with use_cache False.  The identifiers of the two calls differ *)
(* and play no part in how the session is handled.  A session is named after  *)
(* the call that started it: self.playwright, self.browser and self.page hold  *)
(* "None" or the name of the call whose driver, browser or page they refer to. *)

Moved(t, to) == [task EXCEPT ![t].pc = to]

\* call t did operation op on the session started by call owner
Touch(t, op, owner) == touched \cup {<<t, op, owner>>}

\* lines 428-430 reached: if self.playwright, stop() is called on it
StopOrDone(t, tk, sess, seen) ==
    IF playwright # "None"
    THEN /\ sessions' = [sess EXCEPT ![playwright] = [driver |-> "stopped",
                              browser |-> IF @.browser = "open" THEN "closed" ELSE @.browser]]
         /\ touched' = seen \cup {<<t, "stop", playwright>>}
         /\ task' = [tk EXCEPT ![t].pc = "stopping"]
    ELSE /\ sessions' = sess
         /\ touched' = seen
         /\ task' = [tk EXCEPT ![t].pc = "done"]

\* The try block of _perform_consultation is left, with a record or an exception,
\* and the finally clause runs _cleanup as far as its first await, lines 426-430:
\* if self.browser, close() is called on it
EnterCleanup(t, how, seen) ==
    IF browser # "None"
    THEN /\ sessions' = [sessions EXCEPT ![browser].browser = "closed"]
         /\ touched' = seen \cup {<<t, "close", browser>>}
         /\ task' = [task EXCEPT ![t] = [pc |-> "closing", outcome |-> how, on |-> "None"]]
    ELSE StopOrDone(t, [task EXCEPT ![t].outcome = how, ![t].on = "None"], sessions, seen)

\* The awaits of _solve_captcha before its except clause: wait_for_selector (342),
\* get_attribute (344), solve_hcaptcha (345), evaluate (348), asyncio.sleep (354)
CaptchaAwaits == {"sitekey", "get_attribute", "solve", "evaluate", "sleep"}

\* The awaits made on what self.page holds when they are called: goto (295),
\* wait_for_selector (342, 363, 370), evaluate (348), wait_for_url (368),
\* inner_text (304), screenshot (377), content (378)
OnPage ==
    {"goto", "sitekey", "evaluate", "button", "wait_url", "wait_text", "inner_text",
     "screenshot", "content"}

\* The awaits made on the element a wait_for_selector returned: get_attribute (344)
\* and click (364)
OnElement == {"get_attribute", "click"}

PageAwaits == OnPage \cup OnElement \cup CaptchaAwaits

\* What follows an await that returned normally: the next await, the return of line
\* 308 after self.page.url has been read, or the raise of line 359
AfterAwait(at) ==
    CASE at = "goto"          -> "sitekey"
      [] at = "sitekey"       -> "get_attribute"
      [] at = "get_attribute" -> "solve"
      [] at = "solve"         -> "evaluate"
      [] at = "evaluate"      -> "sleep"
      [] at = "sleep"         -> "button"
      [] at = "button"        -> "click"
      [] at = "click"         -> "wait_url"
      [] at = "wait_url"      -> "inner_text"
      [] at = "wait_text"     -> "inner_text"
      [] at = "inner_text"    -> "return"
      [] at = "screenshot"    -> "content"
      [] at = "content"       -> "raise"

\* The call runs on to its next await, at.  An operation on self.page, and the read
\* of self.page.url for solve_hcaptcha (345) and for url_consulta (306), take what
\* self.page holds now; None has no such attribute, which ends the try block (the
\* except clause of line 357 finds no page to save debug information of).
Call(t, at, seen) ==
    CASE at = "raise" -> EnterCleanup(t, "exception", seen)
      [] at = "return" ->
            IF page = "None" THEN EnterCleanup(t, "exception", seen)
            ELSE EnterCleanup(t, "record", seen \cup {<<t, "use", page>>})
      [] at \in OnPage \cup {"solve"} ->
            IF page = "None" THEN EnterCleanup(t, "exception", seen)
            ELSE /\ task' = [task EXCEPT ![t].pc = at,
                                         ![t].on = IF at = "solve" THEN "None" ELSE page]
                 /\ touched' = IF sessions[page].browser = "open"
                               THEN seen \cup {<<t, "use", page>>} ELSE seen
                 /\ sessions' = sessions
      [] at \in OnElement ->
            /\ task' = [task EXCEPT ![t].pc = at]
            /\ touched' = IF sessions[task[t].on].browser = "open"
                          THEN seen \cup {<<t, "use", task[t].on>>} ELSE seen
            /\ sessions' = sessions
      [] at = "sleep" ->
            /\ task' = [task EXCEPT ![t].pc = at, ![t].on = "None"]
            /\ touched' = seen
            /\ sessions' = sessions

\* consultar is called; the loop of line 269 enters _perform_consultation
TaskBegin(t) ==
    /\ UNCHANGED NotConcurrent
    /\ task[t].pc = "idle"
    /\ task' = Moved(t, "setup")
    /\ UNCHANGED <<objVars, sessions, touched>>

\* line 315: if not self.playwright, async_playwright().start() is called; else
\* _setup_browser returns at once and line 295 calls goto
TaskCheck(t) ==
    /\ UNCHANGED NotConcurrent
    /\ task[t].pc = "setup"
    /\ IF playwright = "None"
       THEN task' = Moved(t, "starting") /\ UNCHANGED <<sessions, touched>>
       ELSE Call(t, "goto", touched)
    /\ UNCHANGED objVars

\* line 316: start() has returned: self.playwright is assigned, launch is called
TaskStarted(t) ==
    /\ UNCHANGED NotConcurrent
    /\ task[t].pc = "starting"
    /\ playwright' = t
    /\ sessions' = [sessions EXCEPT ![t].driver = "running"]
    /\ touched' = IF playwright \notin {"None", t} THEN Touch(t, "replace", playwright)
                  ELSE touched
    /\ task' = Moved(t, "launching")
    /\ UNCHANGED <<browser, page>>

\* lines 318-326: launch has returned: self.browser is assigned, new_context is called
TaskLaunched(t) ==
    /\ UNCHANGED NotConcurrent
    /\ task[t].pc = "launching"
    /\ browser' = t
    /\ sessions' = [sessions EXCEPT ![t].browser = "open"]
    /\ touched' = IF browser \notin {"None", t} THEN Touch(t, "replace", browser)
                  ELSE touched
    /\ task' = Moved(t, "new_context")
    /\ UNCHANGED <<playwright, page>>

\* lines 328-333: new_context has returned into the local context; new_page is called
TaskContext(t) ==
    /\ UNCHANGED NotConcurrent
    /\ task[t].pc = "new_context"
    /\ task' = Moved(t, "new_page")
    /\ UNCHANGED <<objVars, sessions, touched>>

\* lines 333-337: new_page has returned: self.page is assigned, route is called
TaskNewPage(t) ==
    /\ UNCHANGED NotConcurrent
    /\ task[t].pc = "new_page"
    /\ page' = t
    /\ touched' = IF page \notin {"None", t} THEN Touch(t, "replace", page) ELSE touched
    /\ task' = Moved(t, "route")
    /\ UNCHANGED <<playwright, browser, sessions>>

\* route has returned and with it _setup_browser; line 295 calls goto
TaskRouted(t) ==
    /\ UNCHANGED NotConcurrent
    /\ task[t].pc = "route"
    /\ Call(t, "goto", touched)
    /\ UNCHANGED objVars

\* An await of lines 295-304 or of _save_debug_info returns or raises, and the call
\* runs on to its next await.  An operation pending on a page whose browser has been
\* closed raises.  An exception inside _solve_captcha is caught by line 357, which
\* calls _save_debug_info; one of wait_for_url by line 369, which waits for the text;
\* one of the screenshot is swallowed by line 380 and line 359 raises.
TaskPageStep(t, o) ==
    /\ UNCHANGED NotConcurrent
    /\ task[t].pc \in PageAwaits
    /\ task[t].pc = "sleep" => o = "ok"
    /\ LET at == task[t].pc
           raised == \/ o # "ok"
                     \/ at \in OnPage \cup OnElement /\ sessions[task[t].on].browser # "open"
       IN  IF ~raised THEN Call(t, AfterAwait(at), touched)
           ELSE IF at \in CaptchaAwaits THEN Call(t, "screenshot", touched)
           ELSE IF at = "wait_url" THEN Call(t, "wait_text", touched)
           ELSE EnterCleanup(t, "exception", touched)
    /\ UNCHANGED objVars

\* line 428: close() has returned: self.browser = None, whatever it holds by now
TaskClosed(t) ==
    /\ UNCHANGED NotConcurrent
    /\ task[t].pc = "closing"
    /\ browser' = "None"
    /\ StopOrDone(t, task, sessions,
                  IF browser \notin {"None", t} /\ sessions[browser].browser = "open"
                  THEN Touch(t, "replace", browser) ELSE touched)
    /\ UNCHANGED <<playwright, page>>

\* line 431: stop() has returned: self.playwright = None
TaskStopped(t) ==
    /\ UNCHANGED NotConcurrent
    /\ task[t].pc = "stopping"
    /\ playwright' = "None"
    /\ touched' = IF playwright \notin {"None", t} /\ sessions[playwright].driver = "running"
                  THEN Touch(t, "replace", playwright) ELSE touched
    /\ task' = Moved(t, "done")
    /\ UNCHANGED <<browser, page, sessions>>

ConcurrentInit ==
    /\ ConcurrentParked /\ LegacyParked
    /\ CoordinatorParked /\ ClientParked /\ ExtractorParked /\ SeleniumParked

ConcurrentNext ==
    \E t \in Tasks :
        \/ TaskBegin(t)
        \/ TaskCheck(t)
        \/ TaskStarted(t)
        \/ TaskLaunched(t)
        \/ TaskContext(t)
        \/ TaskNewPage(t)
        \/ TaskRouted(t)
        \/ \E o \in AwaitOutcomes : TaskPageStep(t, o)
        \/ TaskClosed(t)
        \/ TaskStopped(t)

ConcurrentSpec == ConcurrentInit /\ [][ConcurrentNext]_vars

\* C23: of two calls in progress at the same time, each uses, closes, stops and
\* replaces only the session it started itself.
C23_IndependentPipelines ==
    \A e \in touched : e[1] = e[3]

-----------------------------------------------------------------------------
(* Labels and their values *)

Labels == DOMAIN field_map

\* the raw lines of the text whose trimmed content is the string s
LinesEqual(s) == {i \in 1..Len(ex_text) : strip(ex_text[i]) = s}

\* the first line after raw line i that is not blank, trimmed; "" if there is none
NextNonBlank(i) ==
    LET later == {j \in (i + 1)..Len(ex_text) : strip(ex_text[j]) # <<>>}
    IN  IF later = {} THEN <<>>
        ELSE strip(ex_text[CHOOSE j \in later : \A k \in later : j <= k])

\* the values the lines of label l offer: the next non-blank line of each, unless it
\* is a label itself
ValuesOffered(l) == {NextNonBlank(i) : i \in LinesEqual(l)} \ ({<<>>} \cup Labels)

\* C27: a field of the label table holds the next non-blank line after a line equal
\* to its label, and only when that line is not a label: no such field ever holds
\* a label, and a label followed by another label leaves its field empty.
C27_LabelGuard ==
    Extracted =>
       \A l \in Labels :
          LET value == ex_first[field_map[l][1]][field_map[l][2]]
          IN  /\ value \notin Labels
              /\ ValuesOffered(l) = {} => value = <<>>
              /\ ValuesOffered(l) # {} => value \in ValuesOffered(l)

\* TELEFONE directly followed by LOGRADOURO and then a value: the first field stays
\* empty, the second takes the value
C27_Witness ==
    /\ Extracted
    /\ TextLines = <<(<<"TELEFONE">>), (<<"LOGRADOURO">>), (<<"MATRIZ">>)>>
    /\ ex_first.contato.telefone = <<>>
    /\ ex_first.endereco.logradouro = <<"MATRIZ">>

\* the lines equal to the label NÚMERO whose next non-blank line is a value
NumeroLines == {i \in LinesEqual(<<"NÚMERO">>) : NextNonBlank(i) \notin {<<>>} \cup Labels}

\* the value of the first of them
FirstNumero ==
    IF NumeroLines = {} THEN <<>>
    ELSE NextNonBlank(CHOOSE i \in NumeroLines : \A k \in NumeroLines : i <= k)

\* the lines that may count as the label UF: equal to it, or holding it and shorter
\* than ten characters
UfLines ==
    {i \in 1..Len(ex_text) : Has(strip(ex_text[i]), "UF") /\ len(strip(ex_text[i])) < 10}

\* extract_from_text alone: the number is the value of the first NÚMERO line that has
\* one, and uf is written only for a line equal to UF
NumeroOfExtractFromText ==
    Extracted =>
       /\ ex_first.endereco.numero = FirstNumero
       /\ ex_first.endereco.uf # <<>> => LinesEqual(<<"UF">>) # {}

\* C28: endereco.numero is the value of the first line equal to NÚMERO that is
\* followed by a value, later NÚMERO lines never overwrite it, and NÚMERO and UF
\* are matched by equality (or under the length threshold), never inside a longer
\* line; in extract_from_text and in the legacy _processar_dados.
C28_FirstNumeroWins ==
    ex_pc = "done" =>
       /\ ex_first.endereco.numero = FirstNumero
       /\ ex_first.endereco.uf # <<>> => LinesEqual(<<"UF">>) # {}
       /\ ex_legacy.endereco.numero = FirstNumero
       /\ ex_legacy.endereco.uf # <<>> => UfLines # {}

-----------------------------------------------------------------------------
(* Composite fields *)

\* the value lines that follow a line holding the header and hold the separator
CompositeValues(header) ==
    {NextNonBlank(i) : i \in {k \in 1..Len(ex_text) : Has(strip(ex_text[k]), header)}}
       \ {v \in {NextNonBlank(i) : i \in 1..Len(ex_text)} : Len(v) < 2}

\* the pair is the split of one of the value lines at its first separator: the code
\* is one segment, and code, separator and description together are the line; with
\* no such value line both are empty
SplitOnFirst(pair, header) ==
    IF CompositeValues(header) = {}
    THEN pair = [codigo |-> <<>>, descricao |-> <<>>]
    ELSE /\ Len(pair.codigo) = 1
         /\ pair.codigo \o pair.descricao \in CompositeValues(header)

\* C29: legal nature and primary activity are split at the first " - " of their
\* value line only, and stay empty when the value line has no " - "; in
\* extract_from_text and in the legacy _processar_dados.
C29_SplitOnFirstSeparator ==
    ex_pc = "done" =>
       /\ SplitOnFirst(ex_first.empresa.natureza_juridica, NaturezaHeader)
       /\ SplitOnFirst(ex_first.atividades.principal, PrincipalHeader)
       /\ SplitOnFirst(ex_legacy.empresa.natureza_juridica, NaturezaHeader)
       /\ SplitOnFirst(ex_legacy.atividades.principal, PrincipalHeader)

\* value lines with two separators: the second one stays in the description
C29_Witness ==
    /\ ex_pc = "done"
    /\ ex_first.empresa.natureza_juridica =
          [codigo |-> <<"206-2">>, descricao |-> <<"Sociedade", "Limitada">>]
    /\ ex_first.atividades.principal =
          [codigo |-> <<"62.01-5">>, descricao |-> <<"Desenvolvimento", "sob encomenda">>]
    /\ ex_legacy.empresa.natureza_juridica = ex_first.empresa.natureza_juridica
    /\ ex_legacy.atividades.principal = ex_first.atividades.principal

\* A line made of asterisks only: the eight-character mask and a shorter one
AsteriskRuns == {<<"********">>, <<"****">>}

\* C31: after _processar_dados, none of contato.telefone, situacao.motivo,
\* situacao.situacao_especial and situacao.data_situacao_especial is a run of
\* asterisks, whatever its length.
C31_LegacyMaskedStaysEmpty ==
    ex_pc = "done" =>
       /\ ex_legacy.contato.telefone \notin AsteriskRuns
       /\ ex_legacy.situacao.motivo \notin AsteriskRuns
       /\ ex_legacy.situacao.situacao_especial \notin AsteriskRuns
       /\ ex_legacy.situacao.data_situacao_especial \notin AsteriskRuns

-----------------------------------------------------------------------------
(* The legacy client: SolveCaptchaAPI.solve_hcaptcha and _wait_for_result, *)
(* src/legacy/main.py lines 22-77                                          *)

\* The parameter max_attempts of _wait_for_result (60 by default)
max_attempts == 4

LegacySleepSeconds == 5

\* lines 34-47: the POST; a status other than 1, a missing id or a failed request
\* raise into the handler of lines 45-47, which returns None
LegacySubmit(r) ==
    /\ UNCHANGED NotLegacy
    /\ legacy_pc = "submit"
    /\ legacy_response' = r
    /\ IF ~r.raises /\ r.status = 1 /\ r.request # "<missing>"
       THEN legacy_id' = r.request /\ legacy_pc' = "poll" /\ UNCHANGED legacy_ret
       ELSE legacy_pc' = "done" /\ legacy_ret' = Returned(None) /\ UNCHANGED legacy_id
    /\ UNCHANGED <<legacy_attempt, legacy_polls, legacy_slept, legacy_error_at>>

\* the response is neither a solution nor CAPCHA_NOT_READY
LegacyErrorResponse(r) == ~r.raises /\ r.status # 1 /\ r.request # "CAPCHA_NOT_READY"

\* lines 54-72, one round of the for loop up to its sleep: the GET; status 1 returns
\* the token; CAPCHA_NOT_READY goes to the sleep of line 68; anything else raises
\* inside the try, and the handler of lines 74-76 goes to its sleep
LegacyPoll(r) ==
    /\ UNCHANGED NotLegacy
    /\ legacy_pc = "poll"
    /\ legacy_response' = r
    /\ legacy_polls' = legacy_polls + 1
    /\ legacy_error_at' = IF LegacyErrorResponse(r) /\ legacy_error_at = 0
                          THEN legacy_polls + 1 ELSE legacy_error_at
    /\ IF ~r.raises /\ r.status = 1 /\ r.request # "<missing>"
       THEN /\ legacy_pc' = "done"
            /\ legacy_ret' = Returned([kind |-> "dict", token |-> r.request])
       ELSE legacy_pc' = "sleep" /\ UNCHANGED legacy_ret
    /\ UNCHANGED <<legacy_id, legacy_attempt, legacy_slept>>

\* time.sleep(5) of line 68 or 76 ends; the loop takes its next round, or runs out
\* and line 78 returns None
LegacySleep ==
    /\ UNCHANGED NotLegacy
    /\ legacy_pc = "sleep"
    /\ legacy_slept' = legacy_slept + LegacySleepSeconds
    /\ legacy_attempt' = legacy_attempt + 1
    /\ IF legacy_attempt + 1 < max_attempts
       THEN legacy_pc' = "poll" /\ UNCHANGED legacy_ret
       ELSE legacy_pc' = "done" /\ legacy_ret' = Returned(None)
    /\ UNCHANGED <<legacy_id, legacy_response, legacy_polls, legacy_error_at>>

\* solve_hcaptcha(sitekey, pageurl) has been called
LegacyInit ==
    /\ legacy_pc = "submit" /\ legacy_id = "None" /\ legacy_attempt = 0
    /\ legacy_response = NoResponse /\ legacy_polls = 0 /\ legacy_slept = 0
    /\ legacy_error_at = 0 /\ legacy_ret = NotCalled
    /\ CoordinatorParked /\ ClientParked /\ ExtractorParked /\ SeleniumParked
    /\ ConcurrentParked

LegacyNext ==
    \/ \E r \in SubmitResponses : LegacySubmit(r)
    \/ \E r \in PollResponses : LegacyPoll(r)
    \/ LegacySleep

LegacySpec == LegacyInit /\ [][LegacyNext]_vars

\* C30: once a poll is answered with a status other than 1 and a request other than
\* CAPCHA_NOT_READY, _wait_for_result makes no further GET /res.php.
C30_ErrorStopsPolling ==
    legacy_error_at > 0 => legacy_polls = legacy_error_at

-----------------------------------------------------------------------------
(* One consultar call on a newly constructed CNPJConsultorV2, with the     *)
(* captcha_client it owns: the solve_hcaptcha call of line 345 is run with *)
(* every request it makes.  submits counts the POST /in.php requests of    *)
(* the whole consultar call.                                               *)

NotCoordinatorNorClient ==
    <<extractorVars, seleniumVars, concurrentVars, legacyVars, acquired>>

\* consultar is called on the object as constructed
FirstCall(s, uc) ==
    /\ pc = "idle"
    /\ Consultar(s, uc, 0)
    /\ first_cnpj' = s
    /\ acquired' = 0

\* line 345: the sitekey has been read and solve_hcaptcha is called
CallSolveHcaptcha ==
    /\ pc = "solve" /\ client_pc = "parked"
    /\ client_pc' = "submit" /\ client_attempt' = 0 /\ captcha_id' = "None"
    /\ token' = "None" /\ start_time' = 0 /\ clock' = 0 /\ response' = NoResponse
    /\ client_ret' = NotCalled /\ polls' = 0 /\ pollAt' = 0
    /\ sleptSincePoll' = FALSE /\ sleptSinceFail' = FALSE /\ waitExit' = "none"
    /\ ticket' = "None" /\ poll_id' = "None"
    /\ UNCHANGED submits
    /\ UNCHANGED coordinatorVars
    /\ UNCHANGED NotCoordinatorNorClient

\* lines 345-347 and 355-357: solve_hcaptcha has returned; with a token page.evaluate
\* is called, without one the method raises and line 357 catches it.  The seconds
\* that solve_hcaptcha slept have passed on the clock of consultar as well.
TokenReceived ==
    /\ pc = "solve" /\ client_pc = "done"
    /\ now' = now + clock
    /\ IF Truthy(client_ret.value)
       THEN pc' = "evaluate" /\ UNCHANGED <<exc, result>>
       ELSE Caught("no_token")
    /\ client_pc' = "parked" /\ client_attempt' = 0 /\ captcha_id' = "None"
    /\ token' = "None" /\ start_time' = 0 /\ clock' = 0 /\ response' = NoResponse
    /\ client_ret' = NotCalled /\ polls' = 0 /\ pollAt' = 0
    /\ sleptSincePoll' = FALSE /\ sleptSinceFail' = FALSE /\ waitExit' = "none"
    /\ ticket' = "None" /\ poll_id' = "None"
    /\ UNCHANGED submits
    /\ UNCHANGED <<objVars, envVars, pageUrl, cache, debug, callArgs, attempt, ret, cached,
                   stats, histVars>>
    /\ UNCHANGED NotCoordinatorNorClient

\* Seconds a GET /res.php takes in this composition: it is answered at once.  The
\* wait still ends in each of its three ways, the timeout being reached by the
\* sleeps between the polls.
PipelinePollDurations == {0}

PipelineInit ==
    /\ CoordinatorParked /\ ClientParked
    /\ ExtractorParked /\ SeleniumParked /\ ConcurrentParked /\ LegacyParked

\* what the call is given in this composition: an id, or a string that is rejected;
\* use_cache has its default
PipelineInputs == {Formatted, Letters}

PipelineNext ==
    \/ \E s \in PipelineInputs : FirstCall(s, TRUE)
    \/ CheckCache
    \/ \E o \in AwaitOutcomes : SetupBrowser(o) /\ UNCHANGED acquired
    \/ \E o \in AwaitOutcomes : Launch(o)
    \/ \E o \in AwaitOutcomes : NewContext(o)
    \/ \E o \in AwaitOutcomes : NewPage(o)
    \/ \E o \in AwaitOutcomes : Route(o)
    \/ \E o \in AwaitOutcomes : Goto(o)
    \/ \E o \in AwaitOutcomes : WaitForSitekey(o)
    \/ \E o \in AwaitOutcomes : GetAttribute(o)
    \/ CallSolveHcaptcha
    \/ \E r \in SubmitResponses : SubmitCaptcha(r)
    \/ \E r \in PollResponsesFor("ID") \cup PollResponsesFor("ID2"), d \in PipelinePollDurations :
          Poll(r, d)
    \/ Sleep
    \/ TimeOut
    \/ AfterWait
    \/ TokenReceived
    \/ \E o \in AwaitOutcomes : Evaluate(o)
    \/ Settle
    \/ \E o \in AwaitOutcomes : Screenshot(o)
    \/ \E o \in AwaitOutcomes : Content(o)
    \/ \E o \in AwaitOutcomes : WaitForButton(o)
    \/ \E o \in AwaitOutcomes : Click(o)
    \/ \E o \in AwaitOutcomes : WaitForUrl(o)
    \/ \E o \in AwaitOutcomes, u \in LateUrls : WaitForText(o, u)
    \/ \E o \in AwaitOutcomes, text \in PageTexts : Extract(o, text)
    \/ \E c \in CloseOutcomes : Cleanup(c)
    \/ \E o \in AwaitOutcomes : CleanupStop(o)
    \/ \E w \in SaveOutcomes : ReturnResult(w)
    \/ Backoff
    \/ GiveUp

PipelineSpec == PipelineInit /\ [][PipelineNext]_vars

\* a step that starts a playwright driver
StartsDriver == ~driverRunning /\ driverRunning'

\* a step that opens a browser
OpensBrowser == ~browserOpen /\ browserOpen'

\* a driver is started only by the step that begins an attempt, a browser only by
\* the launch that follows it, and each only while no browser is open
AcquiresInSetupOnly ==
    /\ StartsDriver =>
          (pc = "setup" /\ stats'.attempts = stats.attempts + 1 /\ ~browserOpen)
    /\ OpensBrowser =>
          (pc = "launch" /\ stats.stages = <<>> /\ driverRunning /\ browser = "None")

\* C36: in one consultar call, whatever the site and the solving service do, at most
\* 3 sessions are acquired (a session is acquired only by the _setup_browser of an
\* attempt, and there are at most 3 attempts), a session is acquired only while none
\* is open, at most 3 POST /in.php are made per attempt and 9 in all, and at most 2
\* backoff sleeps are taken.
C36_ResourceBounds ==
    /\ [](/\ stats.attempts <= 3
          /\ stats.sleeps <= 2
          /\ submits <= 3 * stats.attempts
          /\ submits <= 9
          /\ playwright = "None" => (~driverRunning /\ ~browserOpen))
    /\ [][AcquiresInSetupOnly]_vars

\* Three attempts, in each of which solve_hcaptcha made three submits and got no
\* token: nine POST /in.php, two sleeps, the error response
C36_Witness ==
    /\ pc = "done" /\ ReturnedFailure /\ ret.value.erro = "no_token"
    /\ stats.attempts = 3 /\ stats.sleeps = 2 /\ submits = 9
    /\ ~driverRunning /\ ~browserOpen

-----------------------------------------------------------------------------
(* Two consultar calls in a row on a newly constructed object with an empty *)
(* cache directory, both with the default use_cache=True of line 247        *)

\* the second call, d seconds after the first has ended
SecondCall(s, uc, d) ==
    /\ calls = 1 /\ pc = "done"
    /\ Consultar(s, uc, d)
    /\ UNCHANGED first_cnpj
    /\ acquired' = 0

\* _setup_browser, with the start of a driver counted (line 316)
SetupBrowserCounted(o) ==
    /\ SetupBrowser(o)
    /\ acquired' = IF playwright = "None" THEN acquired + 1 ELSE acquired

TwoCallsInit ==
    /\ CoordinatorParked /\ ClientParked
    /\ ExtractorParked /\ SeleniumParked /\ ConcurrentParked /\ LegacyParked

\* what the first of the two calls is given: the id in its punctuated spelling, or a
\* string that is rejected
FirstInputs == {Formatted, Letters}

\* what the second call is given: the bare digits of the same id, or a string that
\* is rejected
SecondInputs == {Plain, Letters}

TwoCallsNext ==
    \/ \E s \in FirstInputs : FirstCall(s, TRUE)
    \/ \E s \in SecondInputs, d \in LaterElapsed : SecondCall(s, TRUE, d)
    \/ CheckCache
    \/ \E o \in AwaitOutcomes : SetupBrowserCounted(o)
    \/ \E o \in AwaitOutcomes : Launch(o)
    \/ \E o \in AwaitOutcomes : NewContext(o)
    \/ \E o \in AwaitOutcomes : NewPage(o)
    \/ \E o \in AwaitOutcomes : Route(o)
    \/ \E o \in AwaitOutcomes : Goto(o)
    \/ \E o \in AwaitOutcomes : WaitForSitekey(o)
    \/ \E o \in AwaitOutcomes : GetAttribute(o)
    \/ \E d \in SolveSleeps : clock + d <= TwoCallsSolveSeconds /\ SolveSleep(d)
    \/ \E r \in SolveReturns : SolveHcaptcha(r)
    \/ \E o \in AwaitOutcomes : Evaluate(o)
    \/ Settle
    \/ \E o \in AwaitOutcomes : Screenshot(o)
    \/ \E o \in AwaitOutcomes : Content(o)
    \/ \E o \in AwaitOutcomes : WaitForButton(o)
    \/ \E o \in AwaitOutcomes : Click(o)
    \/ \E o \in AwaitOutcomes : WaitForUrl(o)
    \/ \E o \in AwaitOutcomes, u \in LateUrls : WaitForText(o, u)
    \/ \E o \in AwaitOutcomes, text \in PageTexts : Extract(o, text)
    \/ \E c \in CloseOutcomes : Cleanup(c)
    \/ \E o \in AwaitOutcomes : CleanupStop(o)
    \/ \E w \in SaveOutcomes : ReturnResult(w)
    \/ Backoff
    \/ GiveUp

TwoCallsSpec == TwoCallsInit /\ [][TwoCallsNext]_vars

\* the call in progress is the second one and the first one wrote the entry of the
\* same key with another spelling of the id, less than 24h before
SecondSpellingWithinTTL ==
    /\ calls = 2 /\ use_cache /\ Normalizes /\ pc # "check_cache"
    /\ first_cnpj # cnpj
    /\ _clean_cnpj(first_cnpj) = Returned(cnpj_clean)
    /\ cache0[cnpj_clean].kind = "record"
    /\ IsFresh(callTime, cache0[cnpj_clean].timestamp)

\* C38: _clean_cnpj applied to its own result gives that result again, for every
\* accepted input; two accepted inputs with the same digits name the same cache
\* entry; and after a first call has cached its record, a second call made with
\* another spelling of the same id within 24h returns that record from the cache,
\* without an attempt: no session is acquired, nothing is written.
C38_NormalizationDeterminesKey ==
    /\ (calls > 0 /\ Normalizes) =>
          /\ _clean_cnpj(cnpj) = Returned(cnpj_clean)
          /\ _clean_cnpj(cnpj_clean) = Returned(cnpj_clean)
    /\ (calls = 2 /\ Normalizes
          /\ SelectChars(first_cnpj, UnicodeDigits) = SelectChars(cnpj, UnicodeDigits))
          => _clean_cnpj(first_cnpj) = Returned(cnpj_clean)
    /\ SecondSpellingWithinTTL =>
          /\ pc = "done"
          /\ ret = Returned(cache0[cnpj_clean])
          /\ stats = ZeroStats
          /\ cache = cache0 /\ saved = "not_called"
          /\ debug = {}

\* The first call was made with the punctuated id and cached its record; the second,
\* one second short of 24h later, was made with the bare digits and was a hit
C38_Witness ==
    /\ SecondSpellingWithinTTL
    /\ first_cnpj = Formatted /\ cnpj = Plain
    /\ callTime - cache0[cnpj_clean].timestamp = CacheTTL - 1
    /\ pc = "done" /\ ret = Returned(cache0[Plain]) /\ stats = ZeroStats
    /\ ~driverRunning /\ ~browserOpen

\* C35: when consultar returns the record of its k-th attempt, the first to end
\* without failure, k sessions have been acquired (each attempt started its own
\* driver) and released, k - 1 backoff sleeps have been taken, and the call is over.
C35_StopsAtFirstSuccess ==
    /\ StopsAtFirstSuccess
    /\ ReturnedFromAttempt =>
          /\ acquired = stats.attempts
          /\ ~browserOpen /\ ~driverRunning

====
